---- MODULE Spec2Model ----
(***************************************************************************)
(* DougHub ingestion pipeline: the question repository (upsert keyed by    *)
(* (source_id, source_question_key)), ingest_question, the directory run   *)
(* ingest_extractions, and the automatic grouping of questions.            *)
(*                                                                         *)
(* The database is a record of three tables.  Rows are kept in insertion   *)
(* order and a row's primary key is its position in its table (SQLite      *)
(* rowid allocation with no deletions).                                    *)
(***************************************************************************)
EXTENDS Integers, Sequences, FiniteSets, TLC

(***************************************************************************)
(* Bounds of the model.                                                    *)
(***************************************************************************)
MaxQuestions == 2   \* rows of the questions table
MaxMedia == 2       \* media siblings of one extraction
MaxFiles == 2       \* json files of one directory run
MaxBatch == 2       \* entries of a MinimalQuestionBatch
MaxHtmlLen == 2     \* bytes of an HTML file

SourceNames == {"MKSAP", "PeerPrep"}
QuestionKeys == {"0", "1"}

\* Python None for text columns and for parent_id / lookups by id.
NULL == "NULL"
NoRow == 0

(***************************************************************************)
(* File contents.  An HTML file is a sequence of bytes; CR and LF are the  *)
(* two line-ending bytes.                                                  *)
(***************************************************************************)
Bytes == {"<", "x", "CR", "LF"}

RECURSIVE SeqsUpTo(_, _)
SeqsUpTo(S, n) ==
    IF n = 0 THEN {<<>>}
    ELSE LET shorter == SeqsUpTo(S, n - 1)
         IN  shorter \cup {Append(s, b) : s \in {x \in shorter : Len(x) = n - 1}, b \in S}

\* open(html_path, encoding="utf-8").read(): text mode with the default
\* newline=None, so "\r\n" and a lone "\r" both come back as "\n".
RECURSIVE ReadText(_)
ReadText(bytes) ==
    IF bytes = <<>> THEN <<>>
    ELSE IF Head(bytes) = "CR"
         THEN IF Len(bytes) >= 2 /\ bytes[2] = "LF"
              THEN <<"LF">> \o ReadText(Tail(Tail(bytes)))
              ELSE <<"LF">> \o ReadText(Tail(bytes))
         ELSE <<Head(bytes)>> \o ReadText(Tail(bytes))

\* The text of a well-formed metadata file, and json.dumps(json.load(f)) of
\* it: the document re-serialised with json.dumps' own separators.
MetadataText == "{ \"url\" : \"u\" }"
JsonDumpsLoad(text) ==
    IF text = MetadataText THEN "{\"url\": \"u\"}" ELSE text

(***************************************************************************)
(* MinimalQuestionBatch values and the optional minimal_data argument.     *)
(***************************************************************************)
\* Distinct validated entries; the second one has the default (empty) context.
StemTexts == <<"<p>stem1</p>", "<p>stem2</p>", "<p>stem3</p>", "<p>stem4</p>">>
CtxTexts == <<"<p>ctx1</p>", "", "<p>ctx3</p>", "<p>ctx4</p>">>
MinimalQuestion(i) ==
    [question_context_html |-> CtxTexts[i], question_stem_html |-> StemTexts[i]]

\* Batches of 0..MaxBatch entries: the caller's start with entry 1, the LLM's
\* with entry 2, so that the stored fields tell which batch was used.
RECURSIVE EntriesFrom(_, _)
EntriesFrom(first, n) ==
    IF n = 0 THEN <<>>
    ELSE Append(EntriesFrom(first, n - 1), MinimalQuestion(first + n - 1))

CallerBatches == {EntriesFrom(1, n) : n \in 0..MaxBatch}
LLMBatches == {EntriesFrom(2, n) : n \in 0..MaxBatch}

NoBatch == [is_none |-> TRUE, questions |-> <<>>]
Batch(qs) == [is_none |-> FALSE, questions |-> qs]

(***************************************************************************)
(* The database.                                                           *)
(***************************************************************************)
EmptyDB == [sources |-> <<>>, questions |-> <<>>, media |-> <<>>]

QuestionColumns ==
    {"question_id", "source_id", "source_question_key", "raw_html",
     "raw_metadata_json", "status", "extraction_path",
     "question_context_html", "question_stem_html", "parent_id", "created_at"}

\* select(Source).where(Source.name == name).scalar_one_or_none()
get_source_by_name(s, name) ==
    IF \E i \in 1..Len(s.sources) : s.sources[i].name = name
    THEN CHOOSE i \in 1..Len(s.sources) : s.sources[i].name = name
    ELSE NoRow

get_or_create_source(s, name) ==
    LET found == get_source_by_name(s, name)
    IN  IF found = NoRow
        THEN [db |-> [s EXCEPT !.sources =
                         Append(@, [source_id |-> Len(s.sources) + 1, name |-> name])],
              source_id |-> Len(s.sources) + 1,
              writes |-> 1]
        ELSE [db |-> s, source_id |-> found, writes |-> 0]

\* select(Question).where(source_id == ..., source_question_key == ...)
MatchingQuestionsBuggyKeyOnly(s, source_id, source_question_key) ==
    {i \in 1..Len(s.questions) :
        s.questions[i].source_question_key = source_question_key}

MatchingQuestions(s, source_id, source_question_key) ==
    {i \in 1..Len(s.questions) :
        /\ s.questions[i].source_id = source_id
        /\ s.questions[i].source_question_key = source_question_key}

\* A lookup that finds nothing.
get_question_by_source_keyBuggyNeverFound(s, source_id, source_question_key) == NoRow

get_question_by_source_key(s, source_id, source_question_key) ==
    LET rows == MatchingQuestions(s, source_id, source_question_key)
    IN  IF rows = {} THEN NoRow ELSE CHOOSE i \in rows : TRUE

get_question_by_id(s, question_id) ==
    IF question_id \in 1..Len(s.questions) THEN question_id ELSE NoRow

RequiredFields == {"source_id", "source_question_key", "raw_html", "raw_metadata_json"}
KeyFields == {"source_id", "source_question_key"}

\* Question(**question_data): columns the caller leaves out take their
\* defaults (NULL, no parent, created_at = the current time).
NewQuestion(question_data, question_id, now) ==
    [c \in QuestionColumns |->
        IF c \in DOMAIN question_data THEN question_data[c]
        ELSE IF c = "question_id" THEN question_id
        ELSE IF c = "parent_id" THEN NoRow
        ELSE IF c = "created_at" THEN now
        ELSE NULL]

\* The update branch: setattr for every supplied field but the two keys.
UpdatedQuestionBuggyKeys(question, question_data) ==
    [c \in DOMAIN question |->
        IF c \in DOMAIN question_data THEN question_data[c] ELSE question[c]]

UpdatedQuestion(question, question_data) ==
    [c \in DOMAIN question |->
        IF c \in DOMAIN question_data /\ c \notin KeyFields
        THEN question_data[c] ELSE question[c]]

add_questionBuggyAlwaysInsert(s, question_data, now) ==
    IF ~(RequiredFields \subseteq DOMAIN question_data)
    THEN [db |-> s, raised |-> TRUE, question_id |-> NoRow, writes |-> 0]
    ELSE [db |-> [s EXCEPT !.questions =
                     Append(@, NewQuestion(question_data, Len(s.questions) + 1, now))],
          raised |-> FALSE,
          question_id |-> Len(s.questions) + 1,
          writes |-> 1]

add_question(s, question_data, now) ==
    IF ~(RequiredFields \subseteq DOMAIN question_data)
    THEN [db |-> s, raised |-> TRUE, question_id |-> NoRow, writes |-> 0]
    ELSE LET found == get_question_by_source_key(
                          s, question_data.source_id, question_data.source_question_key)
         IN  IF found = NoRow
             THEN [db |-> [s EXCEPT !.questions =
                              Append(@, NewQuestion(question_data, Len(s.questions) + 1, now))],
                   raised |-> FALSE,
                   question_id |-> Len(s.questions) + 1,
                   writes |-> 1]
             ELSE LET updated == UpdatedQuestion(s.questions[found], question_data)
                  IN  [db |-> [s EXCEPT !.questions[found] = updated],
                       raised |-> FALSE,
                       question_id |-> found,
                       writes |-> IF updated = s.questions[found] THEN 0 ELSE 1]

add_media_to_question(s, question_id, media_data) ==
    [s EXCEPT !.media =
        Append(@, [media_id |-> Len(s.media) + 1, question_id |-> question_id] @@ media_data)]

(***************************************************************************)
(* Extraction files.  A file stands for one {base}.json with its siblings: *)
(*   base          the timestamp part of the base name                     *)
(*   name_ok       the file name parses into (src, key)                    *)
(*   json          "ok" | "malformed" | "missing"                          *)
(*   html_present  {base}.html exists;  html  its bytes                    *)
(*   media         number of {base}_img{N} siblings found                  *)
(*   copy_fail     0, or the 1-based position of the sibling whose copy    *)
(*                 raises an I/O error                                     *)
(*   llm           what the LLM endpoint answers for this file's HTML:     *)
(*                 error = "" and a validated batch, or the error raised   *)
(***************************************************************************)
LLMErrors == {"http", "json_decode", "validation", "config"}

LLMFailed(e) == [error |-> e, questions |-> <<>>]
LLMReturned(qs) == [error |-> "", questions |-> qs]

\* The siblings `{base}_img{N}.{ext}` an extraction can have beside it, in the
\* order the glob loop meets them: by extension jpg, jpeg, png, gif, webp.
SiblingNames == << [n |-> 3, ext |-> ".jpg"], [n |-> 1, ext |-> ".png"],
                   [n |-> 2, ext |-> ".gif"], [n |-> 0, ext |-> ".webp"] >>

GlobbedSiblings(f) == SubSeq(SiblingNames, 1, f.media)

\* Path order of two siblings of one extraction: the names differ first in N.
PathBefore(a, b) == a.n < b.n

find_media_filesBuggyUnsorted(f) == GlobbedSiblings(f)

\* return sorted(media_files)
find_media_files(f) == SortSeq(GlobbedSiblings(f), PathBefore)

get_mime_type(file_path) ==
    CASE file_path.ext \in {".jpg", ".jpeg"} -> "image/jpeg"
      [] file_path.ext = ".png" -> "image/png"
      [] file_path.ext = ".gif" -> "image/gif"
      [] file_path.ext = ".webp" -> "image/webp"
      [] OTHER -> "application/octet-stream"

\* f"{source_name}/{question_key}_img{media_index}{ext}", by its parts.
MediaPath(media_file, source_name, question_key, media_index) ==
    <<source_name, "/", question_key, "_img", media_index, media_file.ext>>

\* for idx, media_file in enumerate(media_files): copy, then one Media row.
\* `copied` lists the destinations shutil.copy2 has written under media_root.
RECURSIVE StoreMedia(_, _, _, _, _, _)
StoreMedia(s, f, source_name, question_key, question_id, idx) ==
    LET media_files == find_media_files(f)
    IN  IF idx >= Len(media_files)
        THEN [db |-> s, raised |-> FALSE, writes |-> 0, copied |-> <<>>]
        ELSE IF f.copy_fail = idx + 1
        THEN [db |-> s, raised |-> TRUE, writes |-> 0, copied |-> <<>>]
        ELSE LET media_file == media_files[idx + 1]
                 relative_path == MediaPath(media_file, source_name, question_key, idx)
                 media_data == [media_role |-> "image",
                                media_type |-> "question_image",
                                mime_type |-> get_mime_type(media_file),
                                relative_path |-> relative_path]
                 rest == StoreMedia(add_media_to_question(s, question_id, media_data),
                                    f, source_name, question_key, question_id, idx + 1)
             IN  [rest EXCEPT !.writes = @ + 1, !.copied = <<relative_path>> \o @]

\* `if config.ENABLE_LLM_EXTRACTION and extracted_minimal_data is None`
ShouldCallLLMBuggyIgnoreMinimal(enable_llm, minimal_data) == enable_llm

ShouldCallLLM(enable_llm, minimal_data) == enable_llm /\ minimal_data.is_none

\* try: call_extraction_llm(html) / except Exception: every error is caught.
LLMErrorCaughtBuggyHttpOnly(error) == error = "http"

LLMErrorCaught(error) == TRUE

\* The batch the clean-slate fields are taken from after the LLM step.
LLMResult(llm) == IF llm.error = "" THEN Batch(llm.questions) ELSE NoBatch

\* question_data once the two clean-slate fields are (or are not) added.
WithCleanSlateBuggyLast(base, extracted) ==
    IF ~extracted.is_none /\ Len(extracted.questions) > 0
    THEN [question_context_html |->
              extracted.questions[Len(extracted.questions)].question_context_html,
          question_stem_html |->
              extracted.questions[Len(extracted.questions)].question_stem_html] @@ base
    ELSE base

WithCleanSlate(base, extracted) ==
    IF ~extracted.is_none /\ Len(extracted.questions) > 0
    THEN [question_context_html |-> extracted.questions[1].question_context_html,
          question_stem_html |-> extracted.questions[1].question_stem_html] @@ base
    ELSE base

Outcome(s, outcome, question_id, writes, llm_calls, llm_failed, reads) ==
    [db |-> s, outcome |-> outcome, question_id |-> question_id, writes |-> writes,
     llm_calls |-> llm_calls, llm_failed |-> llm_failed, reads |-> reads,
     copied |-> <<>>]

IsRaised(r) == r.outcome \in {"raised_json", "raised_html", "raised_llm", "raised_media"}

ingest_question(s, f, source_name, question_key, minimal_data, enable_llm, now) ==
    IF f.json # "ok"
    THEN Outcome(s, "raised_json", NoRow, 0, 0, FALSE, {"json"})
    ELSE IF ~f.html_present
    THEN Outcome(s, "raised_html", NoRow, 0, 0, FALSE, {"json", "html"})
    ELSE
    LET metadata == JsonDumpsLoad(MetadataText)
        html_content == ReadText(f.html)
        source == get_or_create_source(s, source_name)
        existing_question ==
            get_question_by_source_key(source.db, source.source_id, question_key)
    IN  IF existing_question # NoRow
        THEN Outcome(source.db, "exists", existing_question, source.writes,
                     0, FALSE, {"json", "html"})
        ELSE
        LET base == [source_id |-> source.source_id,
                     source_question_key |-> question_key,
                     raw_html |-> html_content,
                     raw_metadata_json |-> metadata,
                     status |-> "extracted",
                     extraction_path |-> f.base]
            call_llm == ShouldCallLLM(enable_llm, minimal_data)
            llm_failed == call_llm /\ f.llm.error # ""
            extracted == IF call_llm THEN LLMResult(f.llm) ELSE minimal_data
            question_data == WithCleanSlate(base, extracted)
            added == add_question(source.db, question_data, now)
            stored == StoreMedia(added.db, f, source_name, question_key,
                                 added.question_id, 0)
        IN  IF llm_failed /\ ~LLMErrorCaught(f.llm.error)
            THEN Outcome(source.db, "raised_llm", NoRow, source.writes, 1, TRUE,
                         {"json", "html"})
            ELSE
            [Outcome(stored.db,
                     IF stored.raised THEN "raised_media" ELSE "added",
                     added.question_id,
                     source.writes + added.writes + stored.writes,
                     IF call_llm THEN 1 ELSE 0,
                     llm_failed,
                     {"json", "html"}) EXCEPT !.copied = stored.copied]

\* The directory loop of ingest_extractions: `session` is the run's session,
\* `committed` what its last commit made durable; `stats` counts the files
\* added, skipped, found existing and failed, and holds the log records the
\* run has emitted: a level, the message's format string and the values
\* formatted into it.
NoStats == [added |-> 0, skipped |-> 0, existing |-> 0, failed |-> 0, log |-> <<>>,
            copied |-> <<>>]

LogRecord(level, message, args) == [level |-> level, message |-> message, args |-> args]

FileName(f) == <<f.base, f.src, f.key>>

\* What ingest_question and the loop log for one file, in order.
FileLog(json_file, outcome, llm_failed) ==
    IF outcome = "bad_name"
    THEN <<LogRecord("warning", "Could not parse filename: {}", <<FileName(json_file)>>)>>
    ELSE IF outcome = "no_html"
    THEN <<LogRecord("warning", "HTML file not found for: {}", <<FileName(json_file)>>)>>
    ELSE IF outcome = "exists"
    THEN <<LogRecord("info", "Question already exists: {}/{}",
                     <<json_file.src, json_file.key>>)>>
    ELSE (IF llm_failed
          THEN <<LogRecord("error", "LLM extraction failed for {}/{}",
                           <<json_file.src, json_file.key>>)>>
          ELSE <<>>)
         \o (IF outcome \in {"added", "raised_media"}
             THEN <<LogRecord("info", "Added question: {}/{}",
                              <<json_file.src, json_file.key>>)>>
             ELSE <<>>)
         \o (IF outcome = "added" THEN <<>>
             ELSE <<LogRecord("error", "Error ingesting {}", <<FileName(json_file)>>)>>)

Counted(stats, counter, records) ==
    [stats EXCEPT ![counter] = @ + 1, !.log = @ \o records]

\* session.rollback() leaves what shutil.copy2 wrote where it is.
Copied(stats, r) == [stats EXCEPT !.copied = @ \o r.copied]

\* except Exception: session.rollback()
AfterFailureBuggyKeepSession(session, committed) == session

AfterFailure(session, committed) == committed

\* for json_file in json_files: the files from position i on.  Every LLM
\* call of the run is answered by `llm`.
RECURSIVE IngestFiles(_, _, _, _, _, _, _, _)

\* What follows ingest_question(...) = r for the file at position i: a
\* rollback and the next file, or a commit and the next file.
FileIngested(r, committed, json_files, i, enable_llm, llm, now, stats) ==
    IF IsRaised(r)
    THEN IngestFiles(AfterFailure(r.db, committed), committed, json_files, i + 1,
                     enable_llm, llm, now,
                     Counted(Copied(stats, r), "failed",
                             FileLog(json_files[i], r.outcome, r.llm_failed)))
    ELSE IngestFiles(r.db, r.db, json_files, i + 1, enable_llm, llm, now,
                     IF r.outcome = "exists"
                     THEN Counted(stats, "existing",
                                  FileLog(json_files[i], r.outcome, r.llm_failed))
                     ELSE Counted(Copied(stats, r), "added",
                                  FileLog(json_files[i], r.outcome, r.llm_failed)))

IngestFiles(session, committed, json_files, i, enable_llm, llm, now, stats) ==
    IF i \notin DOMAIN json_files THEN [db |-> committed, stats |-> stats]
    ELSE LET json_file == [json_files[i] EXCEPT !.llm = llm]
         IN  IF ~json_file.name_ok \/ ~json_file.html_present
             THEN IngestFiles(session, committed, json_files, i + 1, enable_llm, llm,
                              now,
                              Counted(stats, "skipped",
                                      FileLog(json_file,
                                              IF ~json_file.name_ok
                                              THEN "bad_name" ELSE "no_html",
                                              FALSE)))
             ELSE FileIngested(ingest_question(session, json_file, json_file.src,
                                               json_file.key, NoBatch, enable_llm, now),
                               committed, json_files, i, enable_llm, llm, now, stats)

\* A run that stops at the first failing file instead of going on.
RECURSIVE IngestFilesBuggyUntilFailure(_, _, _, _, _, _, _)
IngestFilesBuggyUntilFailure(session, json_files, i, enable_llm, llm, now, stats) ==
    IF i \notin DOMAIN json_files THEN [db |-> session, stats |-> stats]
    ELSE LET json_file == [json_files[i] EXCEPT !.llm = llm]
         IN  IF ~json_file.name_ok \/ ~json_file.html_present
             THEN IngestFilesBuggyUntilFailure(session, json_files, i + 1, enable_llm, llm,
                                          now, [stats EXCEPT !.skipped = @ + 1])
             ELSE LET r == ingest_question(session, json_file, json_file.src,
                                           json_file.key, NoBatch, enable_llm, now)
                  IN  IF IsRaised(r)
                      THEN [db |-> session, stats |-> [stats EXCEPT !.failed = @ + 1]]
                      ELSE IngestFilesBuggyUntilFailure(r.db, json_files, i + 1,
                                       enable_llm, llm, now,
                                       IF r.outcome = "exists"
                                       THEN [stats EXCEPT !.existing = @ + 1]
                                       ELSE [stats EXCEPT !.added = @ + 1])

ingest_extractionsBuggyAbort(database, json_files, enable_llm, llm, now) ==
    IngestFilesBuggyUntilFailure(database, json_files, 1, enable_llm, llm, now, NoStats)

ingest_extractions(database, json_files, enable_llm, llm, now) ==
    IngestFiles(database, database, json_files, 1, enable_llm, llm, now, NoStats)

\* The end of a run whose loop gave r: the last log line.
RunCompleted(r) ==
    [raised |-> FALSE, completed |-> TRUE, db |-> r.db,
     stats |-> [r.stats EXCEPT !.log =
                   Append(@, LogRecord("info", "Ingestion completed successfully",
                                       <<>>))]]

\* ingest_extractions(extractions_dir, database_url) from its first line to
\* its last.  `database_url` tells whether create_all(engine) reaches the
\* database and what is committed in it; `extractions_dir` whether the
\* directory exists and what glob("*.json") lists.  create_all stands outside
\* every try block, so its error reaches the caller.
ingest_extractions_from(database_url, extractions_dir, enable_llm, llm, now) ==
    LET using == LogRecord("info", "Using database: {}", <<>>)
    IN  IF ~database_url.reachable
        THEN [raised |-> TRUE, completed |-> FALSE, db |-> database_url.db,
              stats |-> [NoStats EXCEPT !.log = <<using>>]]
        ELSE IF ~extractions_dir.exists
        THEN [raised |-> FALSE, completed |-> FALSE, db |-> database_url.db,
              stats |-> [NoStats EXCEPT !.log =
                            <<using,
                              LogRecord("error", "Extractions directory not found: {}",
                                        <<>>)>>]]
        ELSE RunCompleted(
                 IngestFiles(database_url.db, database_url.db,
                             extractions_dir.json_files, 1, enable_llm, llm, now,
                             [NoStats EXCEPT !.log =
                                 <<using,
                                   LogRecord("info", "Found {} JSON files",
                                             <<Len(extractions_dir.json_files)>>)>>]))

(***************************************************************************)
(* Inputs of the operations.                                               *)
(***************************************************************************)
DocPlain == <<"<", "x">>

MinimalArgs == {NoBatch} \cup {Batch(b) : b \in CallerBatches}
LLMAnswers == {LLMFailed(e) : e \in LLMErrors} \cup {LLMReturned(b) : b \in LLMBatches}

ExtractionFile(src, key, json, html_present, html, media, copy_fail) ==
    [base |-> "20251116_150929", name_ok |-> TRUE, src |-> src, key |-> key,
     json |-> json, html_present |-> html_present, html |-> html,
     media |-> media, copy_fail |-> copy_fail, llm |-> LLMFailed("config")]

\* Well-formed pairs without media siblings.
GoodFiles ==
    {ExtractionFile(src, key, "ok", TRUE, DocPlain, 0, 0) :
        src \in SourceNames, key \in QuestionKeys}

\* Well-formed pairs with MaxMedia siblings: all of them copy, or the copy of
\* the last one raises an I/O error.
MediaFiles ==
    {ExtractionFile(src, key, "ok", TRUE, DocPlain, MaxMedia, copy_fail) :
        src \in SourceNames, key \in QuestionKeys, copy_fail \in {0, MaxMedia}}

\* Pairs ingest_question cannot read: malformed or missing JSON, missing HTML.
BadFiles ==
    {ExtractionFile(src, key, json, TRUE, DocPlain, 0, 0) :
        src \in SourceNames, key \in QuestionKeys, json \in {"malformed", "missing"}}
    \cup
    {ExtractionFile(src, key, "ok", FALSE, <<>>, 0, 0) :
        src \in SourceNames, key \in QuestionKeys}

\* What glob("*.json") can list: well-formed pairs, and one representative
\* each of a malformed JSON, a missing HTML sibling and an unparsable name.
DirFiles ==
    MediaFiles
    \cup {ExtractionFile("MKSAP", "0", "malformed", TRUE, DocPlain, 0, 0),
          ExtractionFile("MKSAP", "0", "ok", FALSE, <<>>, 0, 0),
          [ExtractionFile("MKSAP", "0", "ok", TRUE, DocPlain, 0, 0)
              EXCEPT !.name_ok = FALSE]}

Directories == UNION {[1..n -> DirFiles] : n \in 0..MaxFiles}

\* One run's LLM configuration: disabled, or enabled with the endpoint failing
\* or answering every file with the same batch.
RunModes ==
    {[enable_llm |-> FALSE, llm |-> LLMFailed("config")],
     [enable_llm |-> TRUE, llm |-> LLMFailed("http")],
     [enable_llm |-> TRUE, llm |-> LLMReturned(<<MinimalQuestion(2)>>)]}

\* add_question payloads as its callers build them: the required fields,
\* a status, and optionally the clean-slate fields; one lacks raw_html.
QuestionPayloads(source_id, key) ==
    {[source_id |-> source_id, source_question_key |-> key,
      raw_html |-> <<"x">>, raw_metadata_json |-> "{}", status |-> "processed"],
     [source_id |-> source_id, source_question_key |-> key,
      raw_html |-> DocPlain, raw_metadata_json |-> "{}", status |-> "extracted",
      question_context_html |-> "<p>ctx1</p>", question_stem_html |-> "<p>stem1</p>"],
     [source_id |-> source_id, source_question_key |-> key,
      raw_metadata_json |-> "{}", status |-> "extracted"]}

(***************************************************************************)
(* State: the database as the repository session sees it, a summary of     *)
(* the last call (which operation, how it ended, which row it returned,    *)
(* how many questions it added, the HTML bytes it was given), and the      *)
(* ingestion runs in progress, each with a session of its own.             *)
(***************************************************************************)
VARIABLES db, last, runs

vars == <<db, last, runs>>

\* No ingestion run is in progress.
NoRuns == <<>>

Called(op, outcome, clean, question_id, added, html) ==
    [op |-> op, outcome |-> outcome, clean |-> clean, question_id |-> question_id,
     added |-> added, html |-> html]

Init ==
    /\ db = EmptyDB
    /\ last = Called("none", "none", "none", NoRow, 0, <<>>)
    /\ runs = NoRuns

Fits(s) == Len(s.questions) <= MaxQuestions

\* Where the clean-slate fields of a call came from.
CleanSlateSource(r, minimal_data) ==
    IF r.outcome \notin {"added", "raised_media"} THEN "none"
    ELSE IF r.llm_failed THEN "llm_failed"
    ELSE IF r.llm_calls > 0 THEN "llm"
    ELSE IF ~minimal_data.is_none THEN "minimal"
    ELSE "none"

\* ingest_question(repo, json_path, html_path, source_name, question_key,
\*                 minimal_data) under config.ENABLE_LLM_EXTRACTION = enable_llm
IngestQuestionCall(f, minimal_data, enable_llm) ==
    LET r == ingest_question(db, f, f.src, f.key, minimal_data, enable_llm, 0)
    IN  /\ Fits(r.db)
        /\ db' = r.db
        /\ UNCHANGED runs
        /\ last' = Called("ingest_question", r.outcome,
                          CleanSlateSource(r, minimal_data), r.question_id,
                          IF r.outcome = "added" THEN 1 ELSE 0, f.html)

IngestGood ==
    \E f \in GoodFiles, minimal_data \in MinimalArgs, enable_llm \in BOOLEAN :
        \E llm \in IF ShouldCallLLM(enable_llm, minimal_data)
                    THEN LLMAnswers ELSE {LLMFailed("config")} :
            IngestQuestionCall([f EXCEPT !.llm = llm], minimal_data, enable_llm)

IngestBad ==
    \E f \in BadFiles : IngestQuestionCall(f, NoBatch, FALSE)

Next == IngestGood \/ IngestBad

Spec == Init /\ [][Next]_vars

(***************************************************************************)
(* Directory runs, with single calls in the default mode in between.       *)
(***************************************************************************)
\* The directories a run can be pointed at, and the database it is given.
MissingDir == [exists |-> FALSE, json_files |-> <<>>]
ExtractionDirs ==
    {MissingDir} \cup {[exists |-> TRUE, json_files |-> d] : d \in Directories}

Reachable(s) == [reachable |-> TRUE, db |-> s]
Unreachable(s) == [reachable |-> FALSE, db |-> s]

\* The state after a run that gave r.
RunEnded(r) ==
    /\ Fits(r.db)
    /\ db' = r.db
    /\ UNCHANGED runs
    /\ last' = Called("ingest_extractions",
                      IF r.raised THEN "raised"
                      ELSE IF ~r.completed THEN "no_directory"
                      ELSE IF r.stats.failed + r.stats.skipped > 0
                      THEN "had_failures" ELSE "no_failures",
                      "none", NoRow, r.stats.added, <<>>)

IngestExtractionsRun ==
    \E extractions_dir \in ExtractionDirs, mode \in RunModes, reachable \in BOOLEAN :
        /\ reachable \/ (extractions_dir = MissingDir /\ ~mode.enable_llm)
        /\ RunEnded(ingest_extractions_from(
                        IF reachable THEN Reachable(db) ELSE Unreachable(db),
                        extractions_dir, mode.enable_llm, mode.llm, 0))

IngestFile ==
    \E f \in {g \in DirFiles : g.copy_fail = 0} : IngestQuestionCall(f, NoBatch, FALSE)

NextDir == IngestExtractionsRun \/ IngestFile

SpecDir == Init /\ [][NextDir]_vars

(***************************************************************************)
(* The repository upsert next to ingestion.                                *)
(***************************************************************************)
\* source = repo.get_or_create_source(name); repo.add_question({...})
AddQuestionCall ==
    \E name \in SourceNames, key \in QuestionKeys :
        LET source == get_or_create_source(db, name)
        IN  \E question_data \in QuestionPayloads(source.source_id, key) :
                LET r == add_question(source.db, question_data, 0)
                    existed == get_question_by_source_key(
                                   source.db, source.source_id, key) # NoRow
                IN  /\ Fits(r.db)
                    /\ db' = r.db
                    /\ UNCHANGED runs
                    /\ last' = Called("add_question",
                                      IF r.raised THEN "raised"
                                      ELSE IF existed THEN "updated" ELSE "inserted",
                                      "none", r.question_id,
                                      IF r.raised \/ existed THEN 0 ELSE 1, <<>>)

IngestPlain ==
    \E src \in SourceNames, key \in QuestionKeys :
        IngestQuestionCall(ExtractionFile(src, key, "ok", TRUE, DocPlain, 0, 0),
                           NoBatch, FALSE)

NextRepo == AddQuestionCall \/ IngestPlain

SpecRepo == Init /\ [][NextRepo]_vars

(***************************************************************************)
(* HTML files of every content, ingested under one natural key.            *)
(***************************************************************************)
HtmlContents == SeqsUpTo(Bytes, MaxHtmlLen)

IngestHtml ==
    \E html \in HtmlContents :
        IngestQuestionCall(ExtractionFile("MKSAP", "0", "ok", TRUE, html, 0, 0),
                           NoBatch, FALSE)

NextHtml == IngestHtml

SpecHtml == Init /\ [][NextHtml]_vars

(***************************************************************************)
(* Automatic grouping (specification section 4.6), manual unlink and       *)
(* ingestion at chosen creation times.  Times are minutes.                 *)
(***************************************************************************)
GROUP_WINDOW == 5
MaxGrouped == 3

\* Creation times: exactly a window apart (0 and 5), just outside (0 and 6),
\* inside, and equal.
CreationTimes == {0, 2, 5, 6}

\* Natural keys of the grouping scenarios: three parts of one source and one
\* question of another.
GroupIdentities ==
    {<<"MKSAP", "0">>, <<"MKSAP", "1">>, <<"MKSAP", "2">>, <<"PeerPrep", "0">>}

\* Step 1: same-source questions with parent_id null and created_at in
\* [Q.created_at - 5min, Q.created_at).
GroupingCandidatesBuggyAnyParent(question_id, s) ==
    {i \in 1..Len(s.questions) :
        /\ s.questions[i].source_id = s.questions[question_id].source_id
        /\ s.questions[i].created_at >= s.questions[question_id].created_at - GROUP_WINDOW
        /\ s.questions[i].created_at < s.questions[question_id].created_at}

GroupingCandidates(question_id, s) ==
    {i \in 1..Len(s.questions) :
        /\ s.questions[i].source_id = s.questions[question_id].source_id
        /\ s.questions[i].parent_id = NoRow
        /\ s.questions[i].created_at >= s.questions[question_id].created_at - GROUP_WINDOW
        /\ s.questions[i].created_at < s.questions[question_id].created_at}

\* Step 2: the earliest-created candidates (several when created_at ties).
EarliestOfBuggyLatest(candidates, s) ==
    {i \in candidates :
        \A j \in candidates : s.questions[i].created_at >= s.questions[j].created_at}

EarliestOf(candidates, s) ==
    {i \in candidates :
        \A j \in candidates : s.questions[i].created_at <= s.questions[j].created_at}

\* Grouping that looks for a parent again although the question has one.
_group_question_automaticallyBuggyReparent(question_id, s) ==
    LET parents == EarliestOf(GroupingCandidates(question_id, s) \ {question_id}, s)
    IN  IF parents = {} THEN {s}
        ELSE {[s EXCEPT !.questions[question_id].parent_id = parent] :
                 parent \in parents}

\* _group_question_automatically(question, session): the databases it can
\* leave.  A question that has a parent is left alone; without a candidate
\* the question stays a root.
_group_question_automatically(question_id, s) ==
    IF s.questions[question_id].parent_id # NoRow THEN {s}
    ELSE LET parents == EarliestOf(GroupingCandidates(question_id, s), s)
         IN  IF parents = {} THEN {s}
             ELSE {[s EXCEPT !.questions[question_id].parent_id = parent] :
                      parent \in parents}

\* The payload of a freshly captured question.
FreshQuestion(source_id, key) ==
    [source_id |-> source_id, source_question_key |-> key,
     raw_html |-> DocPlain, raw_metadata_json |-> JsonDumpsLoad(MetadataText),
     status |-> "extracted"]

\* A question is persisted with created_at = t and grouped at once.
CreateQuestion ==
    \E id \in GroupIdentities, t \in CreationTimes :
        LET source == get_or_create_source(db, id[1])
            added == add_question(source.db, FreshQuestion(source.source_id, id[2]), t)
        IN  /\ get_question_by_source_key(source.db, source.source_id, id[2]) = NoRow
            /\ Len(added.db.questions) <= MaxGrouped
            /\ \E grouped \in _group_question_automatically(added.question_id, added.db) :
                  /\ db' = grouped
                  /\ UNCHANGED runs
                  /\ last' = Called("create_question",
                                    IF grouped.questions[added.question_id].parent_id = NoRow
                                    THEN "root" ELSE "grouped",
                                    "none", added.question_id, 1, <<>>)

\* MainWindow._on_unlink_question(child_id)
unlink_questionBuggyAllSiblings(s, child_id) ==
    IF get_question_by_id(s, child_id) = NoRow THEN s
    ELSE [s EXCEPT !.questions =
             [i \in DOMAIN @ |->
                 IF @[i].parent_id = @[child_id].parent_id
                 THEN [@[i] EXCEPT !.parent_id = NoRow] ELSE @[i]]]

unlink_question(s, child_id) ==
    IF get_question_by_id(s, child_id) = NoRow THEN s
    ELSE [s EXCEPT !.questions[child_id].parent_id = NoRow]

UnlinkQuestion ==
    \E child_id \in 1..MaxGrouped + 1 :
        /\ db' = unlink_question(db, child_id)
        /\ UNCHANGED runs
        /\ last' = Called("unlink_question",
                          IF db' = db THEN "unchanged" ELSE "unlinked",
                          "none", NoRow, 0, <<>>)

\* ingest_question at time t: a re-ingestion when the key is stored, else a
\* new question that no grouping step looks at.
IngestQuestionAt ==
    \E id \in GroupIdentities, t \in CreationTimes :
        LET r == ingest_question(db, ExtractionFile(id[1], id[2], "ok", TRUE, DocPlain, 0, 0),
                                 id[1], id[2], NoBatch, FALSE, t)
        IN  /\ Len(r.db.questions) <= MaxGrouped
            /\ db' = r.db
            /\ UNCHANGED runs
            /\ last' = Called("ingest_question", r.outcome, "none", NoRow,
                              IF r.outcome = "added" THEN 1 ELSE 0, <<>>)

\* repo.add_question(question_data) with the pipeline's payload for a stored
\* key: the update branch.
UpsertQuestion ==
    \E i \in 1..Len(db.questions) :
        LET r == add_question(db, FreshQuestion(db.questions[i].source_id,
                                                db.questions[i].source_question_key), 0)
        IN  /\ db' = r.db
            /\ UNCHANGED runs
            /\ last' = Called("add_question", "updated", "none", NoRow, 0, <<>>)

NextGroup == CreateQuestion \/ UnlinkQuestion \/ IngestQuestionAt \/ UpsertQuestion

SpecGroup == Init /\ [][NextGroup]_vars

(***************************************************************************)
(* Two ingest_extractions runs at once, each with its own session on the   *)
(* one database.  `db` is what has been committed.  A session's SELECT     *)
(* sees the committed rows and its own flushed ones; its INSERT is checked *)
(* against the unique constraints when it is flushed: it raises            *)
(* IntegrityError on a committed duplicate, and while another session      *)
(* holds an uncommitted duplicate it waits, or gives up with a lock        *)
(* timeout.  The files are well-formed pairs without media, LLM disabled.  *)
(***************************************************************************)
MaxRunFiles == 2

RunIds == {1, 2}

\* A committed Question has the file's natural key.
QuestionKeyStored(s, f) ==
    get_source_by_name(s, f.src) # NoRow
    /\ get_question_by_source_key(s, get_source_by_name(s, f.src), f.key) # NoRow

ConcFiles ==
    {ExtractionFile(id[1], id[2], "ok", TRUE, DocPlain, 0, 0) :
        id \in {<<"MKSAP", "0">>, <<"MKSAP", "1">>, <<"PeerPrep", "0">>}}

RunLists == UNION {[1..n -> ConcFiles] : n \in 1..MaxRunFiles}

\* What a session has flushed and not committed for its current file.
NoPending == [source |-> NULL, question |-> FALSE]

StartedRun(json_files) ==
    [json_files |-> json_files, i |-> 1, pc |-> "select_source",
     pending |-> NoPending, added |-> 0, existing |-> 0, failed |-> 0]

InitConc ==
    /\ db = EmptyDB
    /\ last = Called("none", "none", "none", NoRow, 0, <<>>)
    /\ runs \in [RunIds -> {StartedRun(json_files) : json_files \in RunLists}]

CurrentFile(r) == runs[r].json_files[runs[r].i]

OtherRun(r) == CHOOSE o \in RunIds : o # r

\* The loop goes on with the next json file, or ends.
NextFile(run) ==
    [run EXCEPT !.i = @ + 1,
                !.pending = NoPending,
                !.pc = IF run.i + 1 \in DOMAIN run.json_files
                       THEN "select_source" ELSE "done"]

\* except Exception: session.rollback()
FileFailed(r) ==
    /\ runs' = [runs EXCEPT ![r] = NextFile([@ EXCEPT !.failed = @ + 1])]
    /\ UNCHANGED <<db, last>>

\* get_or_create_source: the SELECT
SelectSource(r) ==
    /\ runs[r].pc = "select_source"
    /\ LET found == \/ get_source_by_name(db, CurrentFile(r).src) # NoRow
                    \/ runs[r].pending.source = CurrentFile(r).src
       IN  runs' = [runs EXCEPT ![r].pc =
                       IF found THEN "select_question" ELSE "insert_source"]
    /\ UNCHANGED <<db, last>>

SourceHeldByOther(r) ==
    runs[OtherRun(r)].pending.source = CurrentFile(r).src

\* get_or_create_source: session.add(source); session.flush()
InsertSource(r) ==
    /\ runs[r].pc = "insert_source"
    /\ IF get_source_by_name(db, CurrentFile(r).src) # NoRow
       THEN FileFailed(r)
       ELSE /\ ~SourceHeldByOther(r)
            /\ runs' = [runs EXCEPT ![r].pending.source = CurrentFile(r).src,
                                    ![r].pc = "select_question"]
            /\ UNCHANGED <<db, last>>

\* get_question_by_source_key / the SELECT of add_question
SelectQuestion(r) ==
    /\ runs[r].pc = "select_question"
    /\ LET found == QuestionKeyStored(db, CurrentFile(r))
       IN  runs' = [runs EXCEPT ![r].pc = IF found THEN "commit" ELSE "insert_question"]
    /\ UNCHANGED <<db, last>>

QuestionHeldByOther(r) ==
    /\ runs[OtherRun(r)].pending.question
    /\ CurrentFile(OtherRun(r)).src = CurrentFile(r).src
    /\ CurrentFile(OtherRun(r)).key = CurrentFile(r).key

\* add_question: session.add(question); session.flush()
InsertQuestion(r) ==
    /\ runs[r].pc = "insert_question"
    /\ IF QuestionKeyStored(db, CurrentFile(r))
       THEN FileFailed(r)
       ELSE /\ ~QuestionHeldByOther(r)
            /\ runs' = [runs EXCEPT ![r].pending.question = TRUE, ![r].pc = "commit"]
            /\ UNCHANGED <<db, last>>

\* The wait for the other session's uncommitted duplicate ends in a timeout.
InsertTimesOut(r) ==
    /\ \/ runs[r].pc = "insert_source" /\ SourceHeldByOther(r)
       \/ runs[r].pc = "insert_question" /\ QuestionHeldByOther(r)
    /\ FileFailed(r)

\* repo.commit(): the session's flushed rows become the committed ones.
Committed(s, f, pending) ==
    IF pending.question
    THEN ingest_question(s, f, f.src, f.key, NoBatch, FALSE, 0).db
    ELSE IF pending.source # NULL THEN get_or_create_source(s, f.src).db
    ELSE s

Commit(r) ==
    /\ runs[r].pc = "commit"
    /\ db' = Committed(db, CurrentFile(r), runs[r].pending)
    /\ runs' = [runs EXCEPT ![r] =
                  NextFile(IF runs[r].pending.question
                           THEN [@ EXCEPT !.added = @ + 1]
                           ELSE [@ EXCEPT !.existing = @ + 1])]
    /\ UNCHANGED last

NextConc ==
    \E r \in RunIds :
        \/ SelectSource(r)
        \/ InsertSource(r)
        \/ SelectQuestion(r)
        \/ InsertQuestion(r)
        \/ InsertTimesOut(r)
        \/ Commit(r)

SpecConc == InitConc /\ [][NextConc]_vars

(***************************************************************************)
(* File names.  A name is a sequence of pieces: "_" and "." are the two    *)
(* separator characters, every other piece is a run of characters that     *)
(* holds neither.                                                         *)
(***************************************************************************)
MaxNameLen == 8
NamePieces == {"a", "0", "_", "."}
FileNames == SeqsUpTo(NamePieces, MaxNameLen)

\* str.split(sep): the parts between the separators, empty ones included.
RECURSIVE Split(_, _)
Split(s, sep) ==
    IF \A i \in 1..Len(s) : s[i] # sep THEN <<s>>
    ELSE LET i == CHOOSE k \in 1..Len(s) :
                     s[k] = sep /\ \A j \in 1..(k - 1) : s[j] # sep
         IN  <<SubSeq(s, 1, i - 1)>> \o Split(SubSeq(s, i + 1, Len(s)), sep)

\* sep.join(parts)
RECURSIVE Join(_, _)
Join(parts, sep) ==
    IF parts = <<>> THEN <<>>
    ELSE IF Len(parts) = 1 THEN parts[1]
    ELSE parts[1] \o <<sep>> \o Join(Tail(parts), sep)

NotParsed == [is_none |-> TRUE, source_name |-> <<>>, question_key |-> <<>>]
Parsed(source_name, question_key) ==
    [is_none |-> FALSE, source_name |-> source_name, question_key |-> question_key]

parse_extraction_filenameBuggyOneTokenSource(filename) ==
    LET parts == Split(filename, "_")
    IN  IF Len(parts) < 4 THEN NotParsed
        ELSE Parsed(parts[3], Split(parts[Len(parts)], ".")[1])

parse_extraction_filename(filename) ==
    LET parts == Split(filename, "_")
    IN  IF Len(parts) < 4 THEN NotParsed
        ELSE LET timestamp_parts == 2
                 remaining == SubSeq(parts, timestamp_parts + 1, Len(parts))
             IN  IF Len(remaining) < 2 THEN NotParsed
                 ELSE Parsed(Join(SubSeq(remaining, 1, Len(remaining) - 1), "_"),
                             Split(remaining[Len(remaining)], ".")[1])

\* A name is given, then parsed.
InitNames ==
    /\ db = EmptyDB
    /\ runs = NoRuns
    /\ last \in {[op |-> "none", filename |-> n, result |-> NotParsed] : n \in FileNames}

ParseFilename ==
    /\ last.op = "none"
    /\ last' = [op |-> "parse_extraction_filename", filename |-> last.filename,
                result |-> parse_extraction_filename(last.filename)]
    /\ UNCHANGED <<db, runs>>

NextNames == ParseFilename

SpecNames == InitNames /\ [][NextNames]_vars

(***************************************************************************)
(* JSON data and the MinimalQuestionBatch schema.  A JSON value is null, a *)
(* number, a string, an array of values or an object, i.e. a function from *)
(* the keys it has to values.                                             *)
(***************************************************************************)
JsonNull == [kind |-> "null"]
JsonNumber == [kind |-> "number"]
JsonString(text) == [kind |-> "string", text |-> text]
JsonArray(items) == [kind |-> "array", items |-> items]
JsonObject(fields) == [kind |-> "object", fields |-> fields]

JsonScalars == {JsonNull, JsonNumber, JsonString(StemTexts[1])}
EntryKeys == {"question_context_html", "question_stem_html", "explanation"}

\* What can stand in the questions array: objects with any of the keys, each
\* holding any scalar, and scalars.
JsonEntries ==
    {JsonObject(fields) : fields \in UNION {[K -> JsonScalars] : K \in SUBSET EntryKeys}}
    \cup JsonScalars

\* Data handed to model_validate: an object without "questions", or with
\* "questions" holding an array, an object or a scalar.
JsonBatches ==
    {JsonObject(<<>>)}
    \cup {JsonObject([k \in {"questions"} |-> v]) :
            v \in {JsonArray(items) : items \in SeqsUpTo(JsonEntries, MaxBatch)}
                  \cup {JsonObject([k \in {"question_stem_html"} |->
                                        JsonString(StemTexts[1])])}
                  \cup JsonScalars}

Has(object, key) == key \in DOMAIN object.fields

\* question_context_html: str = Field(default="") with the context read as
\* str | None, so that null passes as the default.
ContextFieldBuggyOptional(entry) ==
    IF ~Has(entry, "question_context_html") THEN [error |-> FALSE, text |-> ""]
    ELSE IF entry.fields["question_context_html"].kind = "null"
    THEN [error |-> FALSE, text |-> ""]
    ELSE IF entry.fields["question_context_html"].kind = "string"
    THEN [error |-> FALSE, text |-> entry.fields["question_context_html"].text]
    ELSE [error |-> TRUE, text |-> ""]

\* question_context_html: str = Field(default="")
ContextField(entry) ==
    IF ~Has(entry, "question_context_html") THEN [error |-> FALSE, text |-> ""]
    ELSE IF entry.fields["question_context_html"].kind = "string"
    THEN [error |-> FALSE, text |-> entry.fields["question_context_html"].text]
    ELSE [error |-> TRUE, text |-> ""]

\* question_stem_html: str = Field(...)
StemField(entry) ==
    IF Has(entry, "question_stem_html")
       /\ entry.fields["question_stem_html"].kind = "string"
    THEN [error |-> FALSE, text |-> entry.fields["question_stem_html"].text]
    ELSE [error |-> TRUE, text |-> ""]

\* MinimalQuestion.model_validate(entry): the model's two fields, or an error.
ValidateEntry(entry) ==
    IF entry.kind # "object" THEN [error |-> TRUE]
    ELSE IF ContextField(entry).error \/ StemField(entry).error THEN [error |-> TRUE]
    ELSE [error |-> FALSE,
          question |-> [question_context_html |-> ContextField(entry).text,
                        question_stem_html |-> StemField(entry).text]]

\* MinimalQuestionBatch.model_validate(data): the batch, or ValidationError.
model_validate(data) ==
    IF data.kind # "object" \/ ~Has(data, "questions") THEN LLMFailed("validation")
    ELSE LET questions == data.fields["questions"]
         IN  IF questions.kind # "array" THEN LLMFailed("validation")
             ELSE IF \E k \in DOMAIN questions.items :
                        ValidateEntry(questions.items[k]).error
             THEN LLMFailed("validation")
             ELSE LLMReturned([k \in DOMAIN questions.items |->
                                  ValidateEntry(questions.items[k]).question])

\* Data is given, then validated.
InitSchema ==
    /\ db = EmptyDB
    /\ runs = NoRuns
    /\ last \in {[op |-> "none", data |-> d, result |-> LLMFailed("config")] :
                    d \in JsonBatches}

ModelValidate ==
    /\ last.op = "none"
    /\ last' = [op |-> "model_validate", data |-> last.data,
                result |-> model_validate(last.data)]
    /\ UNCHANGED <<db, runs>>

NextSchema == ModelValidate

SpecSchema == InitSchema /\ [][NextSchema]_vars

(***************************************************************************)
(* call_extraction_llm.  The content of a response is a sequence of        *)
(* pieces: a fence of three backticks, the tag "json", another tag "c", a  *)
(* whitespace "\n", and two JSON documents, one that fits the schema and   *)
(* one whose entry lacks its stem.                                        *)
(***************************************************************************)
MaxContentLen == 5
Fence == "fence"
Documents == {"{batch}", "{nostem}"}
ContentPieces == {Fence, "json", "c", "\n"} \cup Documents
Contents == SeqsUpTo(ContentPieces, MaxContentLen)

\* The JSON value a document decodes to.
DocumentValue(document) ==
    JsonObject([k \in {"questions"} |->
        JsonArray(<<JsonObject(
            IF document = "{batch}"
            THEN [k2 \in {"question_context_html", "question_stem_html"} |->
                     JsonString(StemTexts[2])]
            ELSE [k2 \in {"question_context_html"} |-> JsonString(StemTexts[2])])>>)])

\* str.strip()
RECURSIVE Strip(_)
Strip(s) ==
    IF s # <<>> /\ Head(s) = "\n" THEN Strip(Tail(s))
    ELSE IF s # <<>> /\ s[Len(s)] = "\n" THEN Strip(SubSeq(s, 1, Len(s) - 1))
    ELSE s

StartsWith(s, prefix) == Len(s) >= Len(prefix) /\ SubSeq(s, 1, Len(prefix)) = prefix
EndsWith(s, suffix) ==
    Len(s) >= Len(suffix) /\ SubSeq(s, Len(s) - Len(suffix) + 1, Len(s)) = suffix

\* Lines 127-134: strip, drop a fence tagged json, drop a fence, drop a final
\* fence, strip.
StripFences(content) ==
    LET stripped == Strip(content)
        untagged == IF StartsWith(stripped, <<Fence, "json">>)
                    THEN SubSeq(stripped, 3, Len(stripped)) ELSE stripped
        opened == IF StartsWith(untagged, <<Fence>>)
                  THEN Tail(untagged) ELSE untagged
        closed == IF EndsWith(opened, <<Fence>>)
                  THEN SubSeq(opened, 1, Len(opened) - 1) ELSE opened
    IN  Strip(closed)

\* json.loads(content): one document and nothing else.
json_loads(content) ==
    IF Len(content) = 1 /\ content[1] \in Documents
    THEN [error |-> FALSE, data |-> DocumentValue(content[1])]
    ELSE [error |-> TRUE, data |-> JsonNull]

\* Lines 125-140: the content once located.
DecodeContent(content) ==
    LET extracted_data == json_loads(StripFences(content))
    IN  IF extracted_data.error THEN LLMFailed("json_decode")
        ELSE model_validate(extracted_data.data)

\* What the endpoint does: `choices` is absent, or a list of 0 or 1 choices
\* with or without message.content; a flat `content` is there or not.
ResponseShapes ==
    [has_choices : BOOLEAN, choices : 0..1, has_message : BOOLEAN, has_content : BOOLEAN]

LLMCalls ==
    {[configured |-> FALSE, http_ok |-> TRUE,
      response_data |-> CHOOSE s \in ResponseShapes : TRUE, content |-> <<>>],
     [configured |-> TRUE, http_ok |-> FALSE,
      response_data |-> CHOOSE s \in ResponseShapes : TRUE, content |-> <<>>]}
    \cup [configured : {TRUE}, http_ok : {TRUE},
          response_data : {s \in ResponseShapes :
                              /\ s.has_choices \/ (s.choices = 0 /\ ~s.has_message)
                              /\ s.choices = 1 \/ ~s.has_message},
          content : Contents]

call_extraction_llm(call) ==
    IF ~call.configured THEN LLMFailed("config")
    ELSE IF ~call.http_ok THEN LLMFailed("http")
    ELSE LET response_data == call.response_data
         IN  IF response_data.has_choices /\ response_data.choices > 0
             THEN IF response_data.has_message
                  THEN DecodeContent(call.content)
                  ELSE LLMFailed("key_error")
             ELSE IF response_data.has_content
             THEN DecodeContent(call.content)
             ELSE LLMFailed("unexpected_format")

\* A call is set up, then made.
InitLLM ==
    /\ db = EmptyDB
    /\ runs = NoRuns
    /\ last \in {[op |-> "none", call |-> c, result |-> LLMFailed("config")] :
                    c \in LLMCalls}

CallExtractionLLM ==
    /\ last.op = "none"
    /\ last' = [op |-> "call_extraction_llm", call |-> last.call,
                result |-> call_extraction_llm(last.call)]
    /\ UNCHANGED <<db, runs>>

NextLLM == CallExtractionLLM

SpecLLM == InitLLM /\ [][NextLLM]_vars

(***************************************************************************)
(* HTML documents as BeautifulSoup holds them.  An element has a tag name, *)
(* its classes, for an <img> its src attribute, and its children in        *)
(* document order; a text node has the tag "#text" and its string, a       *)
(* sequence of pieces.  A URL is an origin ("" when relative) and a path.  *)
(***************************************************************************)
MaxDepth == 2
MaxKids == 2

NoUrl == [given |-> FALSE, origin |-> "", path |-> <<>>]
Url(origin, path) == [given |-> TRUE, origin |-> origin, path |-> path]

Element(tag, classes, children) ==
    [tag |-> tag, classes |-> classes, src |-> NoUrl, text |-> <<>>,
     children |-> children]
TextNode(text) ==
    [tag |-> "#text", classes |-> {}, src |-> NoUrl, text |-> text, children |-> <<>>]
ImgElement(src) ==
    [tag |-> "img", classes |-> {}, src |-> src, text |-> <<>>, children |-> <<>>]

\* urljoin(base, url): without a base the url as it is, an empty url gives
\* the base, an absolute one stays, a relative one replaces the last segment
\* of the base path, "." dropped.
urljoin(base, url) ==
    IF base.origin = "" /\ base.path = <<>> THEN url
    ELSE IF url.path = <<>> /\ url.origin = "" THEN base
    ELSE IF url.origin # "" THEN url
    ELSE Url(base.origin,
             (IF base.path = <<>> THEN <<>>
              ELSE SubSeq(base.path, 1, Len(base.path) - 1))
             \o SelectSeq(url.path, LAMBDA segment : segment # "."))

SignificantTags ==
    {"p", "ul", "ol", "li", "br", "strong", "em", "u", "b", "i", "h1", "h2", "h3",
     "table", "tr", "td", "th", "thead", "tbody"}

\* HtmlCleaner._is_significant_tag
_is_significant_tag(tag) == tag.tag \in SignificantTags

\* The pieces of the HTML string the cleaner builds.
OpenTag(tag, attrs) ==
    [kind |-> "open", tag |-> tag, attrs |-> attrs, text |-> <<>>, src |-> NoUrl]
CloseTag(tag) ==
    [kind |-> "close", tag |-> tag, attrs |-> {}, text |-> <<>>, src |-> NoUrl]
TextPiece(text) ==
    [kind |-> "text", tag |-> "", attrs |-> {}, text |-> text, src |-> NoUrl]
ImgTag(abs_url) ==
    [kind |-> "img", tag |-> "img", attrs |-> {"style=max-width: 100%; height: auto;"},
     text |-> <<>>, src |-> abs_url]

ListStyle == {"style=margin-left: 20px; padding-left: 10px;"}

\* if abs_url not in self.images: self.images.append(abs_url)
SeenBuggyAppendAlways(images, abs_url) == Append(images, abs_url)

Seen(images, abs_url) ==
    IF \E k \in DOMAIN images : images[k] = abs_url THEN images
    ELSE Append(images, abs_url)

\* any(child.name in ['p', 'ul', 'ol', 'div'] for child in find_all(recursive=False))
HasBlockChildBuggyAnyDescendant(element) ==
    \E k \in DOMAIN element.children :
        \/ element.children[k].tag \in {"p", "ul", "ol", "div"}
        \/ \E j \in DOMAIN element.children[k].children :
              element.children[k].children[j].tag \in {"p", "ul", "ol", "div"}

HasBlockChild(element) ==
    \E k \in DOMAIN element.children :
        element.children[k].tag \in {"p", "ul", "ol", "div"}

\* HtmlCleaner._clean_and_rebuild_html(element) with self.images = images:
\* the HTML built and the images afterwards.  CleanAll cleans the children
\* from position k on, left to right.
RECURSIVE _clean_and_rebuild_html(_, _, _)
RECURSIVE CleanAll(_, _, _, _)
CleanAll(children, k, base_url, images) ==
    IF k > Len(children) THEN [html |-> <<>>, images |-> images]
    ELSE LET first == _clean_and_rebuild_html(children[k], base_url, images)
             rest == CleanAll(children, k + 1, base_url, first.images)
         IN  [html |-> first.html \o rest.html, images |-> rest.images]

_clean_and_rebuild_html(element, base_url, images) ==
    IF element.tag = "#text"
    THEN [html |-> <<TextPiece(element.text)>>, images |-> images]
    ELSE IF element.tag = "img"
    THEN IF element.src.given
         THEN [html |-> <<ImgTag(urljoin(base_url, element.src))>>,
               images |-> Seen(images, urljoin(base_url, element.src))]
         ELSE [html |-> <<>>, images |-> images]
    ELSE LET content == CleanAll(element.children, 1, base_url, images)
         IN  IF ~_is_significant_tag(element)
             THEN IF HasBlockChild(element)
                  THEN [content EXCEPT !.html =
                           <<OpenTag("div", {})>> \o @ \o <<CloseTag("div")>>]
                  ELSE content
             ELSE [content EXCEPT !.html =
                      <<OpenTag(element.tag,
                                IF element.tag \in {"ul", "ol"} THEN ListStyle ELSE {})>>
                      \o @ \o <<CloseTag(element.tag)>>]

\* The subtrees handed to one cleaner: text, an empty paragraph, images with
\* a relative src, the same one written with "./", another one and one
\* without src, under elements with a class, nested up to MaxDepth with up
\* to MaxKids children.
Leaves ==
    {TextNode(<<"x">>), Element("p", {"c"}, <<>>), ImgElement(NoUrl),
     ImgElement(Url("", <<"image.jpg">>)), ImgElement(Url("", <<".", "image.jpg">>)),
     ImgElement(Url("", <<"fig.png">>))}

RECURSIVE Subtrees(_)
Subtrees(depth) ==
    IF depth = 0 THEN Leaves
    ELSE Leaves \cup
         {Element(tag, {"c"}, children) :
             tag \in {"p", "ul", "div", "span"},
             children \in SeqsUpTo(Subtrees(depth - 1), MaxKids)}

BaseUrls == {Url("", <<>>), Url("http://example.com", <<"base", "">>)}

\* cleaner = HtmlCleaner(base_url); then the same subtree is cleaned, and
\* cleaned again.
InitClean ==
    /\ db = EmptyDB
    /\ runs = NoRuns
    /\ last \in {[op |-> "HtmlCleaner", element |-> e, base_url |-> b, images |-> <<>>,
                  html |-> <<>>, first |-> <<>>, cleaned |-> 0] :
                    e \in Subtrees(MaxDepth), b \in BaseUrls}

CleanElement ==
    /\ last.cleaned < 2
    /\ LET r == _clean_and_rebuild_html(last.element, last.base_url, last.images)
       IN  last' = [last EXCEPT !.op = "_clean_and_rebuild_html",
                                !.images = r.images,
                                !.html = r.html,
                                !.first = IF last.cleaned = 0 THEN r.html ELSE @,
                                !.cleaned = @ + 1]
    /\ UNCHANGED <<db, runs>>

NextClean == CleanElement

SpecClean == InitClean /\ [][NextClean]_vars

(***************************************************************************)
(* parse_question_html.  An element of the soup is named by its path, the  *)
(* child positions from the root; decompose() takes elements out of the    *)
(* soup, so what is selected later is selected in what is left.            *)
(***************************************************************************)
MaxPeerLen == 3

\* A CSS selector: alternatives of a tag name and a class, "" for any.
Sel(tag, class) == [tag |-> tag, class |-> class]

Matches(element, selector) ==
    /\ element.tag # "#text"
    /\ \E s \in selector : /\ s.tag \in {"", element.tag}
                           /\ s.class = "" \/ s.class \in element.classes

\* The element at a path.
RECURSIVE At(_, _)
At(root, path) ==
    IF path = <<>> THEN root ELSE At(root.children[Head(path)], Tail(path))

\* The paths of the descendants of an element, in document order; PathsFrom
\* lists those under the children from position k on.
RECURSIVE PathsFrom(_, _)
PathsFrom(element, k) ==
    IF k > Len(element.children) THEN <<>>
    ELSE LET below == PathsFrom(element.children[k], 1)
         IN  <<<<k>>>> \o [j \in DOMAIN below |-> <<k>> \o below[j]]
             \o PathsFrom(element, k + 1)

\* tag.select(selector): descendants of the element at `scope` that match.
select(soup, scope, selector) ==
    LET paths == PathsFrom(At(soup, scope), 1)
    IN  SelectSeq([j \in DOMAIN paths |-> scope \o paths[j]],
                  LAMBDA path : Matches(At(soup, path), selector))

NotFound == [found |-> FALSE, path |-> <<>>]

\* tag.select_one(selector): the first match, or None.
select_one(soup, scope, selector) ==
    IF select(soup, scope, selector) = <<>> THEN NotFound
    ELSE [found |-> TRUE, path |-> select(soup, scope, selector)[1]]

\* decompose() of every descendant of the element at `scope` that matches.
RECURSIVE Without(_, _)
Without(element, selector) ==
    [element EXCEPT !.children =
        LET kept == SelectSeq(@, LAMBDA child : ~Matches(child, selector))
        IN  [k \in DOMAIN kept |-> Without(kept[k], selector)]]

RECURSIVE DecomposeUnder(_, _, _)
DecomposeUnder(soup, scope, selector) ==
    IF scope = <<>> THEN Without(soup, selector)
    ELSE [soup EXCEPT !.children[Head(scope)] =
             DecomposeUnder(@, Tail(scope), selector)]

\* str.strip() of a string of pieces, " " being the whitespace piece.
RECURSIVE StripText(_)
StripText(s) ==
    IF s # <<>> /\ Head(s) = " " THEN StripText(Tail(s))
    ELSE IF s # <<>> /\ s[Len(s)] = " " THEN StripText(SubSeq(s, 1, Len(s) - 1))
    ELSE s

\* tag.get_text(strip=strip): the strings of the text nodes joined, each one
\* stripped first when strip is set.
RECURSIVE get_text(_, _)
get_text(element, strip) ==
    IF element.tag = "#text"
    THEN IF strip THEN StripText(element.text) ELSE element.text
    ELSE IF element.children = <<>> THEN <<>>
    ELSE get_text(element.children[1], strip)
         \o get_text([element EXCEPT !.children = Tail(@)], strip)

Digits == {"0", "8"}
DigitValue(d) == IF d = "8" THEN 8 ELSE 0

RECURSIVE DigitsValue(_)
DigitsValue(digits) ==
    IF digits = <<>> THEN 0
    ELSE 10 * DigitsValue(SubSeq(digits, 1, Len(digits) - 1))
         + DigitValue(digits[Len(digits)])

NoPercentage == [is_none |-> TRUE, hundredths |-> 0]
Percentage(hundredths) == [is_none |-> FALSE, hundredths |-> hundredths]

\* float(text): digits with at most one point and at least one digit give
\* the number, in hundredths; anything else is a ValueError.
ParseFloat(text) ==
    LET points == {k \in DOMAIN text : text[k] = "."}
        point == IF points = {} THEN Len(text) + 1 ELSE CHOOSE k \in points : TRUE
        whole == SubSeq(text, 1, point - 1)
        fraction == SubSeq(text, point + 1, Len(text))
    IN  IF /\ \A k \in DOMAIN text : text[k] \in Digits \cup {"."}
           /\ Cardinality(points) <= 1
           /\ Len(whole) + Len(fraction) > 0
        THEN [error |-> FALSE,
              hundredths |-> 100 * DigitsValue(whole)
                             + DigitsValue(SubSeq(fraction \o <<"0", "0">>, 1, 2))]
        ELSE [error |-> TRUE, hundredths |-> 0]

\* except (ValueError, TypeError): pass, with 0 stored in place of None.
PeerPercentageBuggyZero(soup, item, selector) ==
    LET peer_el == select_one(soup, item, selector)
    IN  IF ~peer_el.found THEN NoPercentage
        ELSE Percentage(ParseFloat(SelectSeq(get_text(At(soup, peer_el.path), TRUE),
                                             LAMBDA c : c # "%")).hundredths)

\* peer_percentage of one answer item: lines 122-129 and 173-180.
PeerPercentage(soup, item, selector) ==
    LET peer_el == select_one(soup, item, selector)
    IN  IF ~peer_el.found THEN NoPercentage
        ELSE LET peer_text == SelectSeq(get_text(At(soup, peer_el.path), TRUE),
                                        LAMBDA c : c # "%")
             IN  IF ParseFloat(peer_text).error THEN NoPercentage
                 ELSE Percentage(ParseFloat(peer_text).hundredths)

UnwantedTags ==
    {Sel("script", ""), Sel("style", ""), Sel("link", ""), Sel("meta", ""),
     Sel("button", ""), Sel("input", "")}

BaseStyle == {"style=font-family: sans-serif; font-size: 14px; color: #333; line-height: 1.6;"}

\* A literal <i>...</i> message.
Message(text) == <<OpenTag("i", {}), TextPiece(<<text>>), CloseTag("i")>>

\* _parse_with_cleaner(tag, cleaner) for the element at `path`: the unwanted
\* tags under it leave the soup, the rest is cleaned and wrapped.
_parse_with_cleaner(soup, path, base_url, images) ==
    LET remaining == DecomposeUnder(soup, path, UnwantedTags)
        cleaned == _clean_and_rebuild_html(At(remaining, path), base_url, images)
    IN  [soup |-> remaining,
         html |-> <<OpenTag("div", BaseStyle)>> \o cleaned.html
                  \o <<CloseTag("div")>>,
         images |-> cleaned.images]

\* A section of a parser: the element is cleaned when it was found.
CleanedIfFound(soup, found, base_url, images, otherwise) ==
    IF found.found THEN _parse_with_cleaner(soup, found.path, base_url, images)
    ELSE [soup |-> soup, html |-> otherwise, images |-> images]

\* The text of an item: that of its first `selector` descendant, else its own.
ItemText(soup, item, selector) ==
    IF select_one(soup, item, selector).found
    THEN get_text(At(soup, select_one(soup, item, selector).path), TRUE)
    ELSE get_text(At(soup, item), TRUE)

\* Lines 111-133.
AcepAnswers(soup) ==
    LET choices_container == select_one(soup, <<>>, {Sel("div", "choices")})
    IN  IF ~choices_container.found THEN <<>>
        ELSE LET choices == select(soup, choices_container.path,
                                   {Sel("li", "paper-shadow")})
             IN  [k \in DOMAIN choices |->
                    [text |-> ItemText(soup, choices[k], {Sel("label", "")}),
                     is_correct |-> "correct" \in At(soup, choices[k]).classes,
                     peer_percentage |->
                         PeerPercentage(soup, choices[k], {Sel("", "peer-percent")})]]

_parse_acep_content(soup, base_url) ==
    LET stem == select_one(soup, <<>>, {Sel("div", "questionStem")})
        question == CleanedIfFound(soup, stem, base_url, <<>>,
                                   Message("Question not found."))
        answers == AcepAnswers(question.soup)
        explanation == select_one(question.soup, <<>>,
                                  {Sel("div", "exam-reasoning"), Sel("div", "reasoning")})
        explained == CleanedIfFound(question.soup, explanation, base_url,
                                    question.images, Message("Explanation not found."))
    IN  [parser |-> "acep", question_html |-> question.html, answers |-> answers,
         explanation_html |-> explained.html, images |-> explained.images]

UpperLetters == {"A", "B", "C"}

\* re.search(r'Correct Answer:\s*([A-Z])', text): the letter of the leftmost
\* match, "" without a match.
CorrectAnswerLetter(text) ==
    LET letter_at(k) == CHOOSE j \in (k + 1)..(Len(text) + 1) :
                            /\ j <= Len(text) => text[j] # " "
                            /\ \A m \in (k + 1)..(j - 1) : text[m] = " "
        matches == {k \in DOMAIN text :
                       /\ text[k] = "Correct Answer:"
                       /\ letter_at(k) <= Len(text)
                       /\ text[letter_at(k)] \in UpperLetters}
    IN  IF matches = {} THEN ""
        ELSE text[letter_at(CHOOSE k \in matches : \A m \in matches : k <= m)]

\* Lines 158-184.
MksapAnswers(soup) ==
    LET q_mcq == select_one(soup, <<>>, {Sel("section", "q_mcq")})
    IN  IF ~q_mcq.found THEN <<>>
        ELSE LET options == select(soup, q_mcq.path, {Sel("div", "option")})
             IN  [k \in DOMAIN options |->
                    [text |-> ItemText(soup, options[k],
                                       {Sel("span", "answer-text"), Sel("span", "text")}),
                     letter |->
                         IF select_one(soup, options[k],
                                       {Sel("div", "bubble"), Sel("span", "letter")}).found
                         THEN get_text(At(soup,
                                  select_one(soup, options[k],
                                             {Sel("div", "bubble"),
                                              Sel("span", "letter")}).path), TRUE)
                         ELSE <<>>,
                     is_correct |-> "r_a" \in At(soup, options[k]).classes,
                     peer_percentage |->
                         PeerPercentage(soup, options[k],
                                        {Sel("div", "stats"), Sel("div", "peer")})]]

\* Lines 191-199: the fallback, run once the explanation element is found.
WithFallbackBuggyAlways(answers, text) ==
    [k \in DOMAIN answers |->
        [answers[k] EXCEPT !.is_correct =
            @ \/ (CorrectAnswerLetter(text) # ""
                  /\ answers[k].letter = <<CorrectAnswerLetter(text)>>)]]

WithFallback(answers, text) ==
    IF \E k \in DOMAIN answers : answers[k].is_correct THEN answers
    ELSE IF CorrectAnswerLetter(text) = "" THEN answers
    ELSE [k \in DOMAIN answers |->
             [answers[k] EXCEPT !.is_correct =
                 answers[k].letter = <<CorrectAnswerLetter(text)>>]]

\* Lines 153-155: for answer_block in question_content.select(...): decompose()
StemBlock(soup, question_content) ==
    IF question_content.found
    THEN DecomposeUnder(soup, question_content.path,
                        {Sel("section", "q_mcq"), Sel("div", "choices")})
    ELSE soup

_parse_mksap_content(soup, base_url) ==
    LET question_content == select_one(soup, <<>>, {Sel("section", "q_info"),
                                                     Sel("div", "question-content")})
        question == CleanedIfFound(StemBlock(soup, question_content), question_content,
                                   base_url, <<>>, Message("Question not found."))
        answers == MksapAnswers(question.soup)
        explanation == select_one(question.soup, <<>>,
                                  {Sel("section", "answer"), Sel("div", "exposition")})
        explained == CleanedIfFound(question.soup, explanation, base_url,
                                    question.images, Message("Explanation not found."))
    IN  [parser |-> "mksap", question_html |-> question.html,
         answers |-> IF explanation.found
                     THEN WithFallback(answers,
                                       get_text(At(explained.soup, explanation.path),
                                                FALSE))
                     ELSE answers,
         explanation_html |-> explained.html, images |-> explained.images]

_parse_generic_content(soup, base_url) ==
    LET body == select_one(soup, <<>>, {Sel("body", "")})
        question == CleanedIfFound(soup, body, base_url, <<>>,
                                   Message("No content available."))
    IN  [parser |-> "generic", question_html |-> question.html, answers |-> <<>>,
         explanation_html |-> <<>>, images |-> question.images]

ChooseParserBuggyMksapFirst(soup) ==
    IF select_one(soup, <<>>, {Sel("section", "q_info"), Sel("section", "q_mcq")}).found
    THEN "mksap"
    ELSE IF select_one(soup, <<>>, {Sel("div", "questionStem")}).found THEN "acep"
    ELSE "generic"

\* Lines 229-237.
ChooseParser(soup) ==
    IF select_one(soup, <<>>, {Sel("div", "questionStem")}).found THEN "acep"
    ELSE IF select_one(soup, <<>>, {Sel("section", "q_info"),
                                     Sel("section", "q_mcq")}).found
    THEN "mksap"
    ELSE "generic"

\* parse_question_html(raw_html, raw_metadata) for a non-empty raw_html whose
\* parse is `soup`; base_url is raw_metadata.get('url', '').
parse_question_html(soup, base_url) ==
    IF ChooseParser(soup) = "acep" THEN _parse_acep_content(soup, base_url)
    ELSE IF ChooseParser(soup) = "mksap" THEN _parse_mksap_content(soup, base_url)
    ELSE _parse_generic_content(soup, base_url)

\* The documents parsed.  A shape says which blocks a page has: the ACEP
\* stem (alone or with the choices nested in it), the ACEP choices, the MKSAP
\* q_info (alone, or with q_mcq or div.choices nested in it), a q_mcq beside
\* it, which options carry r_a, whether options show their letter, what the
\* explanation says, and whether the page has <html><body> around it.
PeerPieces == {"8", "0", "%", ".", "x"}
PeerTexts == SeqsUpTo(PeerPieces, MaxPeerLen)

Shapes ==
    [wrap : BOOLEAN, acep : {"none", "stem", "stem_with_choices"},
     acep_choices : BOOLEAN,
     info : {"none", "plain", "nested_mcq", "nested_choices"}, mcq : BOOLEAN,
     marked : SUBSET {1, 2}, letters : BOOLEAN,
     explanation : {"none", "C", "B", "other"},
     peer : {<<"8", "%">>}, has_peer : {TRUE}]

\* One page of each kind with every peer text, and with none.
PeerShapes ==
    [wrap : {TRUE}, acep : {"none", "stem"}, acep_choices : {TRUE},
     info : {"plain"}, mcq : {TRUE}, marked : {{}}, letters : {TRUE},
     explanation : {"none"}, peer : PeerTexts, has_peer : BOOLEAN]

Paragraph(text) == Element("p", {}, <<TextNode(text)>>)

Peer(shape, tag, class) ==
    IF shape.has_peer THEN <<Element(tag, {class}, <<TextNode(shape.peer)>>)>>
    ELSE <<>>

AcepChoices(shape) ==
    Element("div", {"choices"},
        <<Element("li", {"paper-shadow", "incorrect"},
              <<Element("label", {}, <<TextNode(<<"Admit">>)>>)>>
              \o Peer(shape, "div", "peer-percent")),
          Element("li", {"paper-shadow", "correct"},
              <<TextNode(<<" ", "Discharge", " ">>)>>
              \o Peer(shape, "div", "peer-percent"))>>)

Option(shape, k, letter, text) ==
    Element("div", IF k \in shape.marked THEN {"option", "r_a"} ELSE {"option"},
        (IF shape.letters
         THEN <<Element("span", {"letter"}, <<TextNode(<<letter>>)>>)>> ELSE <<>>)
        \o <<Element("span", {"answer-text"}, <<TextNode(<<text>>)>>)>>
        \o Peer(shape, "div", "stats"))

MksapOptions(shape) ==
    Element("section", {"q_mcq"},
        <<Option(shape, 1, "A", "Azithromycin"), Option(shape, 2, "C", "Fluid")>>)

\* The stem of either source: a paragraph, an image, a button with an image
\* in it, and whatever is nested.
Stem(tag, class, nested) ==
    Element(tag, {class},
        <<Paragraph(<<"A", " ", "woman">>), ImgElement(Url("", <<"image.jpg">>)),
          Element("button", {}, <<ImgElement(Url("", <<"fig.png">>))>>)>> \o nested)

ExplanationText(shape) ==
    IF shape.explanation = "other" THEN <<"Fluid", " ", "x">>
    ELSE <<"Correct Answer:", " ", shape.explanation>>

Explanations(shape) ==
    IF shape.explanation = "none" THEN <<>>
    ELSE <<Element("section", {"answer"},
               <<Paragraph(ExplanationText(shape)),
                 ImgElement(Url("", <<".", "image.jpg">>))>>),
           Element("div", {"reasoning"}, <<Paragraph(ExplanationText(shape))>>)>>

Blocks(shape) ==
    (IF shape.acep = "none" THEN <<>>
     ELSE <<Stem("div", "questionStem",
                 IF shape.acep = "stem_with_choices"
                 THEN <<AcepChoices(shape)>> ELSE <<>>)>>)
    \o (IF shape.acep_choices THEN <<AcepChoices(shape)>> ELSE <<>>)
    \o (IF shape.info = "none" THEN <<>>
        ELSE <<Stem("section", "q_info",
                    IF shape.info = "nested_mcq" THEN <<MksapOptions(shape)>>
                    ELSE IF shape.info = "nested_choices" THEN <<AcepChoices(shape)>>
                    ELSE <<>>)>>)
    \o (IF shape.mcq THEN <<MksapOptions(shape)>> ELSE <<>>)
    \o Explanations(shape)

\* BeautifulSoup(raw_html, 'html.parser') of the page of a shape.
Soup(shape) ==
    Element("[document]", {},
        IF shape.wrap
        THEN <<Element("html", {}, <<Element("body", {}, Blocks(shape))>>)>>
        ELSE Blocks(shape))

\* A page is received, then parsed.
InitPage ==
    /\ db = EmptyDB
    /\ runs = NoRuns
    /\ last \in {[op |-> "none", shape |-> s, base_url |-> b,
                  result |-> _parse_generic_content(Element("[document]", {}, <<>>), b)] :
                    s \in Shapes \cup PeerShapes,
                    b \in {Url("http://example.com", <<"base", "">>)}}

ParseQuestionHtml ==
    /\ last.op = "none"
    /\ last' = [last EXCEPT !.op = "parse_question_html",
                            !.result = parse_question_html(Soup(last.shape),
                                                           last.base_url)]
    /\ UNCHANGED <<db, runs>>

NextPage == ParseQuestionHtml

SpecPage == InitPage /\ [][NextPage]_vars

(***************************************************************************)
(* Properties.                                                             *)
(***************************************************************************)
SourceName(s, question) == s.sources[question.source_id].name

\* The rows of s stored under the natural key (source_name, question_key).
QuestionsOf(s, source_name, question_key) ==
    {i \in 1..Len(s.questions) :
        /\ SourceName(s, s.questions[i]) = source_name
        /\ s.questions[i].source_question_key = question_key}

CallModes ==
    {m \in [minimal_data : MinimalArgs, enable_llm : BOOLEAN, llm : LLMAnswers] :
        ShouldCallLLM(m.enable_llm, m.minimal_data) \/ m.llm = LLMFailed("config")}

Ingested(s, f, m) ==
    ingest_question(s, [f EXCEPT !.llm = m.llm], f.src, f.key,
                    m.minimal_data, m.enable_llm, 0)

\* C1: calling ingest_question twice with the same file pair and natural key
\* leaves exactly one Question for the key, with the question_id of the first
\* call, and the second call writes nothing (no Source, Question or Media row
\* inserted or changed); a second ingest_extractions run over the same
\* directory writes nothing either.
C1_IngestTwiceIsIdempotent ==
    /\ \A f \in MediaFiles \cup BadFiles, m \in CallModes :
          LET first == Ingested(db, f, m)
              second == Ingested(first.db, f, m)
          IN  /\ second.db = first.db
              /\ second.writes = 0
              /\ ~IsRaised(first) =>
                    /\ second.outcome = "exists"
                    /\ second.question_id = first.question_id
                    /\ QuestionsOf(second.db, f.src, f.key) = {first.question_id}
    /\ \A json_files \in Directories, mode \in RunModes :
          LET first == ingest_extractions(db, json_files, mode.enable_llm, mode.llm, 0)
              second == ingest_extractions(first.db, json_files,
                                           mode.enable_llm, mode.llm, 0)
          IN  /\ second.db = first.db
              /\ second.stats.added = 0
              /\ \A i \in DOMAIN json_files :
                    Cardinality(QuestionsOf(second.db, json_files[i].src,
                                            json_files[i].key)) <= 1

\* A second call on an already ingested key has happened and the key has one row
\* with its media.
C1_Witness ==
    /\ last.op = "ingest_question"
    /\ last.outcome = "exists"
    /\ Len(db.media) > 0
    /\ \E f \in MediaFiles : QuestionsOf(db, f.src, f.key) = {last.question_id}

\* At most one row per natural key (source_id, source_question_key).
NaturalKeysUnique(s) ==
    \A i, j \in 1..Len(s.questions) :
        (/\ s.questions[i].source_id = s.questions[j].source_id
         /\ s.questions[i].source_question_key = s.questions[j].source_question_key)
        => i = j

\* C2: add_question never leaves two rows with one (source_id,
\* source_question_key); called for an existing key it returns that row with
\* the same question_id, adds no row, sets exactly the supplied non-key fields
\* and leaves every other column and every other row as they were; called for
\* a new key it appends one row.
C2_AddQuestionIsUpsert ==
    /\ NaturalKeysUnique(db)
    /\ \A source_id \in 1..Len(db.sources), key \in QuestionKeys :
         \A question_data \in QuestionPayloads(source_id, key) :
            LET existing == QuestionsOf(db, db.sources[source_id].name, key)
                r == add_question(db, question_data, 0)
            IN  ~r.raised =>
                  /\ NaturalKeysUnique(r.db)
                  /\ r.db.questions[r.question_id].source_id = source_id
                  /\ r.db.questions[r.question_id].source_question_key = key
                  /\ existing # {} =>
                       /\ existing = {r.question_id}
                       /\ Len(r.db.questions) = Len(db.questions)
                       /\ \A c \in QuestionColumns :
                            r.db.questions[r.question_id][c] =
                              IF c \in DOMAIN question_data
                              THEN question_data[c]
                              ELSE db.questions[r.question_id][c]
                       /\ \A i \in 1..Len(db.questions) :
                            i # r.question_id => r.db.questions[i] = db.questions[i]
                  /\ existing = {} =>
                       /\ r.question_id = Len(db.questions) + 1
                       /\ Len(r.db.questions) = Len(db.questions) + 1
                       /\ \A i \in 1..Len(db.questions) :
                            r.db.questions[i] = db.questions[i]

\* add_question has just updated an existing row while another row is present.
C2_Witness ==
    /\ last.op = "add_question"
    /\ last.outcome = "updated"
    /\ Len(db.questions) = MaxQuestions
    /\ db.questions[last.question_id].status = "processed"

\* A file that ingest_question can ingest completely.
WellFormed(f) ==
    f.name_ok /\ f.json = "ok" /\ f.html_present /\ f.copy_fail = 0

\* C3: in one ingest_extractions run, a file that is skipped or whose
\* ingestion raises neither rolls back nor blocks any other file: every
\* well-formed file of the directory has its question (with all its media)
\* persisted after the run, wherever the failing files stand in the order,
\* and every row persisted before the run is still there unchanged.
C3_FailuresAreIsolated ==
    \A json_files \in Directories, mode \in RunModes :
        LET r == ingest_extractions(db, json_files, mode.enable_llm, mode.llm, 0)
        IN  /\ \A i \in DOMAIN json_files :
                 WellFormed(json_files[i]) =>
                   \E q \in QuestionsOf(r.db, json_files[i].src, json_files[i].key) :
                      \/ q <= Len(db.questions)
                      \/ Cardinality({m \in 1..Len(r.db.media) :
                                        r.db.media[m].question_id = q})
                           = json_files[i].media
            /\ SubSeq(r.db.questions, 1, Len(db.questions)) = db.questions
            /\ SubSeq(r.db.media, 1, Len(db.media)) = db.media
            /\ r.stats.added
                 = Len(r.db.questions) - Len(db.questions)

\* A run in which some file failed or was skipped has added a question.
C3_Witness ==
    /\ last.op = "ingest_extractions"
    /\ last.outcome = "had_failures"
    /\ last.added > 0
    /\ Len(db.questions) = last.added

\* C4 (as the specification states it): when a Question with the natural
\* key already exists, ingest_question is a pure no-op that reads neither the
\* JSON nor the HTML file: it returns the stored row whatever the state of the
\* two files, calls no LLM and changes nothing.
C4_ExistingIsPureNoop ==
    \A f \in GoodFiles \cup BadFiles, m \in CallModes :
        QuestionsOf(db, f.src, f.key) # {} =>
            LET r == Ingested(db, f, m)
            IN  /\ r.reads = {}
                /\ r.outcome = "exists"
                /\ r.question_id \in QuestionsOf(db, f.src, f.key)
                /\ r.db = db
                /\ r.llm_calls = 0

RowOf(r) == r.db.questions[r.question_id]

CleanSlateOf(question) ==
    <<question.question_context_html, question.question_stem_html>>

\* C5: with LLM extraction enabled and no minimal_data, any error of the LLM
\* call (HTTP, JSON decoding, validation, configuration) is caught: the call
\* does not raise, the base Question is inserted with raw_html and
\* raw_metadata_json populated and status "extracted", and both clean-slate
\* fields stay null.
C5_LLMFailureKeepsBaseQuestion ==
    \A f \in GoodFiles, e \in LLMErrors :
        QuestionsOf(db, f.src, f.key) = {} =>
            LET r == Ingested(db, f, [minimal_data |-> NoBatch, enable_llm |-> TRUE,
                                      llm |-> LLMFailed(e)])
            IN  /\ r.outcome = "added"
                /\ r.llm_calls = 1
                /\ r.llm_failed
                /\ QuestionsOf(r.db, f.src, f.key) = {r.question_id}
                /\ RowOf(r).raw_html = ReadText(f.html)
                /\ RowOf(r).raw_metadata_json = JsonDumpsLoad(MetadataText)
                /\ RowOf(r).status = "extracted"
                /\ CleanSlateOf(RowOf(r)) = <<NULL, NULL>>

\* The last call inserted a question although its LLM call failed.
C5_Witness ==
    /\ last.op = "ingest_question"
    /\ last.clean = "llm_failed"
    /\ last.outcome = "added"
    /\ CleanSlateOf(db.questions[last.question_id]) = <<NULL, NULL>>

\* The clean-slate fields a batch yields: those of its first entry, or nulls.
FirstEntryFields(batch) ==
    IF batch.is_none \/ batch.questions = <<>>
    THEN <<NULL, NULL>>
    ELSE <<batch.questions[1].question_context_html,
           batch.questions[1].question_stem_html>>

\* C6: when ingest_question inserts, a minimal_data argument is used as-is
\* and the LLM is never called; otherwise, with LLM extraction enabled, the
\* LLM is called exactly once and its result is used; otherwise no LLM call
\* is made and both clean-slate fields are null.
C6_CleanSlatePrecedence ==
    \A f \in GoodFiles, m \in CallModes :
        QuestionsOf(db, f.src, f.key) = {} =>
            LET r == Ingested(db, f, m)
                fields == CleanSlateOf(RowOf(r))
            IN  /\ r.outcome = "added"
                /\ ~m.minimal_data.is_none =>
                     /\ r.llm_calls = 0
                     /\ fields = FirstEntryFields(m.minimal_data)
                /\ (m.minimal_data.is_none /\ m.enable_llm) =>
                     /\ r.llm_calls = 1
                     /\ fields = FirstEntryFields(LLMResult(m.llm))
                /\ (m.minimal_data.is_none /\ ~m.enable_llm) =>
                     /\ r.llm_calls = 0
                     /\ fields = <<NULL, NULL>>

\* A question was inserted from the caller's minimal_data in one call and from
\* the LLM's answer in another.
C6_Witness ==
    /\ last.op = "ingest_question"
    /\ last.outcome = "added"
    /\ last.clean = "minimal"
    /\ CleanSlateOf(db.questions[last.question_id]) = FirstEntryFields(Batch(EntriesFrom(1, 1)))
    /\ \E i \in 1..Len(db.questions) :
          CleanSlateOf(db.questions[i]) = FirstEntryFields(Batch(EntriesFrom(2, 1)))

\* The batch ingest_question ends up with after the LLM step.
ResultingBatch(m) ==
    IF ~m.minimal_data.is_none THEN m.minimal_data
    ELSE IF m.enable_llm THEN LLMResult(m.llm)
    ELSE NoBatch

\* C7: after an insert, question_context_html and question_stem_html are
\* both taken from the first entry of the resulting batch, or both null when
\* there is no batch or it has no entry; no stored row has one of them set
\* from a batch and the other null.
C7_FirstEntryOrBothNull ==
    /\ \A i \in 1..Len(db.questions) :
          (db.questions[i].question_context_html = NULL)
            <=> (db.questions[i].question_stem_html = NULL)
    /\ \A f \in GoodFiles, m \in CallModes :
          QuestionsOf(db, f.src, f.key) = {} =>
             LET r == Ingested(db, f, m)
                 batch == ResultingBatch(m)
             IN  /\ batch.is_none => CleanSlateOf(RowOf(r)) = <<NULL, NULL>>
                 /\ (~batch.is_none /\ Len(batch.questions) = 0) =>
                       CleanSlateOf(RowOf(r)) = <<NULL, NULL>>
                 /\ (~batch.is_none /\ Len(batch.questions) > 0) =>
                       /\ RowOf(r).question_context_html =
                            batch.questions[1].question_context_html
                       /\ RowOf(r).question_stem_html =
                            batch.questions[1].question_stem_html

\* One stored question has the fields of a batch's first entry while another,
\* inserted from an empty batch, has both fields null.
C7_Witness ==
    /\ last.op = "ingest_question"
    /\ last.outcome = "added"
    /\ last.clean = "minimal"
    /\ CleanSlateOf(db.questions[last.question_id]) = <<NULL, NULL>>
    /\ \E i \in 1..Len(db.questions) :
          db.questions[i].question_stem_html = StemTexts[1]

\* C8 (as the specification states it): ingest_question stores the HTML
\* file's content byte for byte in raw_html, whatever its line endings, and
\* reading the Question back gives the same bytes as the file.
C8_RawHtmlIsFileBytes ==
    (last.op = "ingest_question" /\ last.outcome = "added") =>
        /\ get_question_by_source_key(
               db, db.questions[last.question_id].source_id,
               db.questions[last.question_id].source_question_key)
             = last.question_id
        /\ db.questions[last.question_id].raw_html = last.html

\* C9: for a freshly persisted parentless question Q, grouping sets
\* Q.parent_id to an earliest-created question among those of Q's source with
\* parent_id null and created_at in [Q.created_at - 5 min, Q.created_at): a
\* candidate exactly 5 minutes older is eligible, one created with Q is not;
\* without such a candidate Q stays a root; a question of another source is
\* never the parent.
C9_GroupsUnderEarliestCandidate ==
    \A id \in GroupIdentities, t \in CreationTimes :
        QuestionsOf(db, id[1], id[2]) = {} =>
            LET source == get_or_create_source(db, id[1])
                added == add_question(source.db, FreshQuestion(source.source_id, id[2]), t)
                Q == added.question_id
                eligible == {i \in 1..Len(db.questions) :
                                /\ SourceName(db, db.questions[i]) = id[1]
                                /\ db.questions[i].parent_id = NoRow
                                /\ t - db.questions[i].created_at \in 1..GROUP_WINDOW}
            IN  \A grouped \in _group_question_automatically(Q, added.db) :
                    LET parent == grouped.questions[Q].parent_id
                    IN  /\ eligible = {} => parent = NoRow
                        /\ eligible # {} =>
                             /\ parent \in eligible
                             /\ \A c \in eligible :
                                  db.questions[parent].created_at
                                      <= db.questions[c].created_at
                        /\ parent # NoRow =>
                             SourceName(grouped, grouped.questions[parent]) = id[1]

\* The question just created was put under a parent exactly GROUP_WINDOW
\* minutes older although a later parentless question of the source was in
\* the window too.
C9_Witness ==
    /\ last.op = "create_question"
    /\ last.outcome = "grouped"
    /\ LET Q == db.questions[last.question_id]
           parent == db.questions[Q.parent_id]
       IN  /\ Q.created_at - parent.created_at = GROUP_WINDOW
           /\ \E i \in 1..Len(db.questions) :
                 /\ i # Q.parent_id
                 /\ db.questions[i].source_id = Q.source_id
                 /\ db.questions[i].parent_id = NoRow
                 /\ db.questions[i].created_at > parent.created_at
                 /\ db.questions[i].created_at < Q.created_at

\* C10: in every reachable state every question with a parent_id references
\* a question of the same source, created at or before the child and within
\* the 5-minute window, that itself has no parent; so no tree is deeper than
\* two levels, no child hangs under a sibling and no question is its own
\* ancestor.
C10_ParentsAreRootsInWindow ==
    \A i \in 1..Len(db.questions) :
        db.questions[i].parent_id # NoRow =>
            LET child == db.questions[i]
                parent == db.questions[child.parent_id]
            IN  /\ child.parent_id \in 1..Len(db.questions)
                /\ child.parent_id # i
                /\ parent.source_id = child.source_id
                /\ parent.created_at <= child.created_at
                /\ child.created_at - parent.created_at <= GROUP_WINDOW
                /\ parent.parent_id = NoRow
                /\ \A j \in 1..Len(db.questions) : db.questions[j].parent_id # i

\* Two parts hang under one root, the later one created within the window of
\* the earlier one, and grouping has just attached one of them.
C10_Witness ==
    /\ last.op = "create_question"
    /\ last.outcome = "grouped"
    /\ \E i, j \in 1..Len(db.questions) :
          /\ i # j
          /\ db.questions[i].parent_id # NoRow
          /\ db.questions[i].parent_id = db.questions[j].parent_id
          /\ db.questions[j].created_at - db.questions[i].created_at \in 1..GROUP_WINDOW

\* C11: grouping is evaluated once, at creation: run on a question that has
\* a parent it changes nothing, and creating and grouping a new question
\* (also one with an earlier created_at than stored ones) changes no stored
\* question, its parent_id included.
C11_GroupingTouchesOnlyTheNewQuestion ==
    /\ \A i \in 1..Len(db.questions) :
          db.questions[i].parent_id # NoRow =>
              _group_question_automatically(i, db) = {db}
    /\ \A id \in GroupIdentities, t \in CreationTimes :
          QuestionsOf(db, id[1], id[2]) = {} =>
              LET source == get_or_create_source(db, id[1])
                  added == add_question(source.db,
                                        FreshQuestion(source.source_id, id[2]), t)
              IN  \A grouped \in _group_question_automatically(added.question_id, added.db) :
                      /\ Len(grouped.questions) = Len(db.questions) + 1
                      /\ \A i \in 1..Len(db.questions) :
                            grouped.questions[i] = db.questions[i]

\* A question created last, out of order, is a parentless earlier candidate
\* for a stored child that keeps its later parent.
C11_Witness ==
    /\ last.op = "create_question"
    /\ db.questions[last.question_id].parent_id = NoRow
    /\ \E i \in 1..Len(db.questions) :
          /\ db.questions[i].parent_id # NoRow
          /\ last.question_id \in GroupingCandidates(i, db)
          /\ db.questions[last.question_id].created_at
               < db.questions[db.questions[i].parent_id].created_at

\* The rows whose parent_id a step changes.
Reparented ==
    {i \in 1..Len(db.questions) : db'.questions[i].parent_id # db.questions[i].parent_id}

\* C12: a parent_id that is set changes only in an unlink step, which sets
\* that one child's parent_id to null and changes nothing else; re-ingestion
\* of a stored key and the pipeline's add_question upsert never change a
\* parent_id.
C12_OnlyUnlinkClearsParent ==
    [][/\ Len(db'.questions) >= Len(db.questions)
       /\ Reparented # {} =>
            /\ last'.op = "unlink_question"
            /\ Cardinality(Reparented) = 1
            /\ \A i \in Reparented :
                 /\ db'.questions[i].parent_id = NoRow
                 /\ db' = [db EXCEPT !.questions[i].parent_id = NoRow]
       /\ last'.op \in {"ingest_question", "add_question"} =>
            \A i \in 1..Len(db.questions) :
                db'.questions[i].parent_id = db.questions[i].parent_id]_vars

\* One child was just unlinked while a sibling still hangs under the parent,
\* or a stored child was just re-ingested or upserted.
C12_Witness ==
    /\ last.op = "unlink_question"
    /\ last.outcome = "unlinked"
    /\ \E i, j \in 1..Len(db.questions) :
          /\ i # j
          /\ db.questions[j].parent_id = i
          /\ \E k \in 1..Len(db.questions) :
                /\ k \notin {i, j}
                /\ db.questions[k].parent_id = NoRow
                /\ db.questions[k].created_at > db.questions[i].created_at

\* Both runs have gone through all their files.
RunsDone == runs # NoRuns /\ \A r \in RunIds : runs[r].pc = "done"

\* C13 (as the specification states it): when two runs with separate
\* sessions ingest at once, then after every interleaving of their lookup,
\* insert and commit steps both runs have gone through all their files and
\* every key either run was given has exactly one persisted Question row:
\* a conflict on a key both were given costs nothing, and runs given
\* distinct keys do not conflict.
C13_ConcurrentRunsConverge ==
    RunsDone =>
        /\ NaturalKeysUnique(db)
        /\ \A r \in RunIds, i \in 1..MaxRunFiles :
              i \in DOMAIN runs[r].json_files =>
                  Cardinality(QuestionsOf(db, runs[r].json_files[i].src,
                                          runs[r].json_files[i].key)) = 1

\* A log record that reports the four per-outcome counts of the run.
ReportsCounts(record, stats, llm_failed) ==
    /\ Len(record.args) = 4
    /\ record.args = <<stats.added, stats.skipped, stats.existing, llm_failed>>

LLMFailures(log) ==
    Cardinality({k \in DOMAIN log : log[k].message = "LLM extraction failed for {}/{}"})

\* C14 (as the specification states it): ingest_extractions never raises to
\* its caller and always runs to completion, whatever the directory holds or
\* lacks and whatever the persistence layer does, and it logs the counts of
\* files added, skipped, already existing and LLM-failed.
C14_NeverRaisesAndLogsCounts ==
    \A extractions_dir \in ExtractionDirs, mode \in RunModes, reachable \in BOOLEAN :
        LET r == ingest_extractions_from(
                     IF reachable THEN Reachable(db) ELSE Unreachable(db),
                     extractions_dir, mode.enable_llm, mode.llm, 0)
        IN  /\ ~r.raised
            /\ extractions_dir.exists => r.completed
            /\ \E k \in DOMAIN r.stats.log :
                  ReportsCounts(r.stats.log[k], r.stats, LLMFailures(r.stats.log))

\* The relative paths the Media rows of a database point to.
MediaRowPaths(s) == {s.media[m].relative_path : m \in 1..Len(s.media)}

\* The Media rows of question q.
MediaOf(s, q) == {m \in 1..Len(s.media) : s.media[m].question_id = q}

\* C15: after ingest_extractions there is no partial state: the run adds no
\* Question, Media or Source row for a file that failed, every file copied
\* into media storage has a Media row pointing to it, and every Question the
\* run persisted has one Media row per discovered media file.
C15_NoPartialStateAfterRun ==
    \A json_files \in Directories, mode \in RunModes :
        LET r == ingest_extractions(db, json_files, mode.enable_llm, mode.llm, 0)
        IN  /\ Len(r.db.questions) - Len(db.questions) = r.stats.added
            /\ \A m \in 1..Len(r.db.media) :
                 r.db.media[m].question_id \in 1..Len(r.db.questions)
            /\ \A src \in (Len(db.sources) + 1)..Len(r.db.sources) :
                 \E q \in (Len(db.questions) + 1)..Len(r.db.questions) :
                    r.db.questions[q].source_id = src
            /\ \A q \in (Len(db.questions) + 1)..Len(r.db.questions) :
                 \E i \in DOMAIN json_files :
                    /\ q \in QuestionsOf(r.db, json_files[i].src, json_files[i].key)
                    /\ Cardinality(MediaOf(r.db, q))
                         = Len(find_media_files(json_files[i]))
            /\ \A k \in DOMAIN r.stats.copied :
                 r.stats.copied[k] \in MediaRowPaths(r.db)

\* The sibling that stands k-th (from 0) when the siblings of f are put in
\* path order: the one with exactly k siblings before it.
KthSibling(f, k) ==
    CHOOSE x \in {SiblingNames[j] : j \in 1..f.media} :
        Cardinality({y \in {SiblingNames[j] : j \in 1..f.media} : y.n < x.n}) = k

\* C17: ingesting a new question with n discovered media files creates
\* exactly n Media rows, in sorted discovery order; the row of the k-th file
\* (k = 0..n-1) belongs to the new question and has the relative path
\* {source_name}/{question_key}_img{k}{ext}; no two Media rows of the
\* database have the same relative path.
C17_OneMediaRowPerFileInOrder ==
    /\ \A m1, m2 \in 1..Len(db.media) :
          m1 # m2 => db.media[m1].relative_path # db.media[m2].relative_path
    /\ \A src \in SourceNames, key \in QuestionKeys, n \in 0..MaxMedia :
          LET f == ExtractionFile(src, key, "ok", TRUE, DocPlain, n, 0)
              r == ingest_question(db, f, src, key, NoBatch, FALSE, 0)
          IN  r.outcome = "added" =>
                /\ Len(r.db.media) = Len(db.media) + n
                /\ SubSeq(r.db.media, 1, Len(db.media)) = db.media
                /\ \A k \in 0..(n - 1) :
                     LET row == r.db.media[Len(db.media) + k + 1]
                     IN  /\ row.question_id = r.question_id
                         /\ row.relative_path
                              = <<src, "/", key, "_img", k, KthSibling(f, k).ext>>
                         /\ r.copied[k + 1] = row.relative_path

\* The last call ingested a new question with MaxMedia media files while the
\* media of another question were stored already.
C17_Witness ==
    /\ last.op = "ingest_question"
    /\ last.outcome = "added"
    /\ Cardinality(MediaOf(db, last.question_id)) = MaxMedia
    /\ Len(db.media) > MaxMedia

\* The positions of "_" in a name.
Underscores(name) == {i \in 1..Len(name) : name[i] = "_"}

ValidEntry(entry) ==
    /\ entry.kind = "object"
    /\ "question_stem_html" \in DOMAIN entry.fields
    /\ entry.fields["question_stem_html"].kind = "string"
    /\ "question_context_html" \in DOMAIN entry.fields =>
          entry.fields["question_context_html"].kind = "string"

\* C18: MinimalQuestionBatch validation succeeds exactly when questions is
\* an array (empty or not) of valid entries: the stem a string, the context
\* a string or omitted.  The batch then has the entries in their order, each
\* with just the two fields, an omitted context being "" and unknown keys
\* being dropped.  A null context, a missing or non-string stem, or
\* questions that is not an array gives a ValidationError.
C18_SchemaAcceptsExactlyValidEntries ==
    last.op = "model_validate" =>
        LET data == last.data
            accepted == /\ "questions" \in DOMAIN data.fields
                        /\ data.fields["questions"].kind = "array"
                        /\ \A k \in DOMAIN data.fields["questions"].items :
                              ValidEntry(data.fields["questions"].items[k])
        IN  /\ ~accepted => last.result = LLMFailed("validation")
            /\ accepted =>
                 LET items == data.fields["questions"].items
                 IN  /\ last.result.error = ""
                     /\ Len(last.result.questions) = Len(items)
                     /\ \A k \in DOMAIN items :
                          LET question == last.result.questions[k]
                          IN  /\ DOMAIN question
                                   = {"question_context_html", "question_stem_html"}
                              /\ question.question_stem_html
                                   = items[k].fields["question_stem_html"].text
                              /\ question.question_context_html
                                   = IF "question_context_html" \in DOMAIN items[k].fields
                                     THEN items[k].fields["question_context_html"].text
                                     ELSE ""

\* A batch of MaxBatch entries has been validated whose first entry has an
\* unknown key and no context.
C18_Witness ==
    /\ last.op = "model_validate"
    /\ last.result.error = ""
    /\ Len(last.result.questions) = MaxBatch
    /\ DOMAIN last.data.fields["questions"].items[1].fields
         = {"question_stem_html", "explanation"}
    /\ last.result.questions[1].question_context_html = ""

\* The response has its content where the claim looks for it: in
\* choices[0].message.content, else in a flat content field.
ContentLocated(call) ==
    \/ /\ call.response_data.has_choices
       /\ call.response_data.choices > 0
       /\ call.response_data.has_message
    \/ call.response_data.has_content

\* C19: call_extraction_llm returns a batch only when the located content
\* decodes and passes schema validation, and then returns that batch; an
\* HTTP failure, a JSON-decode failure and a schema failure each raise their
\* own error; a response with its content in neither place always raises the
\* explicit unexpected-response-shape error.
C19_ReturnsValidatedBatchOrTypedError ==
    last.op = "call_extraction_llm" /\ last.call.configured =>
        LET call == last.call
            decoded == json_loads(StripFences(call.content))
        IN  /\ ~call.http_ok => last.result = LLMFailed("http")
            /\ call.http_ok /\ ~ContentLocated(call) =>
                 last.result = LLMFailed("unexpected_format")
            /\ call.http_ok /\ ContentLocated(call) =>
                 /\ decoded.error => last.result = LLMFailed("json_decode")
                 /\ ~decoded.error => last.result = model_validate(decoded.data)
            /\ last.result.error = "" =>
                 call.http_ok /\ ContentLocated(call) /\ ~decoded.error

\* The fences a content can open and close with, with or without a line
\* break between fence and payload.
OpeningFences ==
    {<<>>, <<Fence>>, <<Fence, "\n">>, <<Fence, "json">>, <<Fence, "json", "\n">>,
     <<Fence, "c">>, <<Fence, "c", "\n">>}
ClosingFences == {<<>>, <<Fence>>, <<"\n", Fence>>}

\* C20: a JSON payload gives the same result whether its content arrives
\* unfenced, behind a bare opening fence or behind an opening fence with a
\* language tag (json or any other), with or without a closing fence.
C20_FencesOfAnyTagAreStripped ==
    last.op = "call_extraction_llm" /\ last.call.configured /\ last.call.http_ok
    /\ ContentLocated(last.call)
    /\ (last.call.response_data.has_choices /\ last.call.response_data.choices > 0
          => last.call.response_data.has_message) =>
        \A document \in Documents, opening \in OpeningFences, closing \in ClosingFences :
            last.call.content = opening \o <<document>> \o closing =>
                last.result = model_validate(DocumentValue(document))

\* The src attributes of the <img> tags of a subtree that have one, in
\* document order.
RECURSIVE ImgSrcs(_)
ImgSrcs(element) ==
    IF element.tag = "img"
    THEN IF element.src.given THEN <<element.src>> ELSE <<>>
    ELSE IF element.children = <<>> THEN <<>>
    ELSE ImgSrcs(element.children[1])
         \o ImgSrcs([element EXCEPT !.children = Tail(@)])

\* The strings of the text nodes of a subtree, in document order.
RECURSIVE TextsOf(_)
TextsOf(element) ==
    IF element.tag = "#text" THEN <<element.text>>
    ELSE IF element.children = <<>> THEN <<>>
    ELSE TextsOf(element.children[1])
         \o TextsOf([element EXCEPT !.children = Tail(@)])

PiecesOf(html, kind) == SelectSeq(html, LAMBDA piece : piece.kind = kind)

\* C25: after a subtree is cleaned, the images list holds no URL twice and is
\* the list of first occurrences of the src values of the subtree's <img>
\* tags, resolved against the base URL (absolute when the base is); the
\* emitted <img> tags carry these URLs, one tag per <img> with a src and none
\* for an <img> without; cleaning the subtree again gives the same HTML and
\* the same list.
C25_ImagesAreDedupedResolvedSrcs ==
    last.op = "_clean_and_rebuild_html" =>
        LET srcs == ImgSrcs(last.element)
            resolved == [k \in DOMAIN srcs |-> urljoin(last.base_url, srcs[k])]
            firsts == SelectSeq([k \in DOMAIN srcs |->
                                    [url |-> resolved[k],
                                     first |-> \A j \in 1..(k - 1) :
                                                   resolved[j] # resolved[k]]],
                                LAMBDA x : x.first)
            tags == PiecesOf(last.html, "img")
        IN  /\ \A j, k \in DOMAIN last.images :
                 j # k => last.images[j] # last.images[k]
            /\ Len(last.images) = Len(firsts)
            /\ \A k \in DOMAIN firsts : last.images[k] = firsts[k].url
            /\ Len(tags) = Len(srcs)
            /\ \A k \in DOMAIN srcs : tags[k].src = resolved[k]
            /\ last.base_url.origin # "" =>
                 \A k \in DOMAIN last.images : last.images[k].origin # ""
            /\ last.cleaned = 2 => last.html = last.first

\* A subtree whose <img> tags repeat a URL, written in two ways, next to
\* another URL and an <img> without src has been cleaned twice.
C25_Witness ==
    /\ last.op = "_clean_and_rebuild_html"
    /\ last.cleaned = 2
    /\ last.base_url.origin # ""
    /\ Len(last.images) = 2
    /\ Len(PiecesOf(last.html, "img")) = 3
    /\ Len(last.element.children) = MaxKids
    /\ \E k \in DOMAIN last.element.children[MaxKids].children :
          last.element.children[MaxKids].children[k] = ImgElement(NoUrl)

\* C27: the cleaner's HTML has only whitelisted tags without their original
\* attributes, rebuilt <img> tags and plain <div> wrappers; the text nodes
\* pass through as they are, in order; a non-whitelisted tag gives the
\* concatenation of its cleaned children, inside a plain <div> exactly when
\* one of its direct children is a p, ul, ol or div.
C27_OnlyWhitelistedTagsAndDivWrappers ==
    last.op = "_clean_and_rebuild_html" /\ last.cleaned = 1 =>
        LET element == last.element
            children == CleanAll(element.children, 1, last.base_url, <<>>).html
            block == \E k \in DOMAIN element.children :
                        element.children[k].tag \in {"p", "ul", "ol", "div"}
        IN  /\ \A k \in DOMAIN last.html :
                 LET piece == last.html[k]
                 IN  piece.kind \in {"open", "close"} =>
                       /\ piece.tag \in SignificantTags \cup {"div"}
                       /\ piece.attrs \subseteq ListStyle
                       /\ piece.tag = "div" => piece.attrs = {}
            /\ [k \in DOMAIN PiecesOf(last.html, "text") |->
                    PiecesOf(last.html, "text")[k].text] = TextsOf(element)
            /\ element.tag \notin SignificantTags \cup {"img", "#text"} =>
                 last.html = IF block
                             THEN <<OpenTag("div", {})>> \o children
                                  \o <<CloseTag("div")>>
                             ELSE children
            /\ element.tag \in SignificantTags =>
                 /\ last.html[1].tag = element.tag
                 /\ SubSeq(last.html, 2, Len(last.html) - 1) = children

\* A span around a span that holds a paragraph has been cleaned: the inner
\* span is wrapped, the outer one, whose direct children are inline, is not.
C27_Witness ==
    /\ last.op = "_clean_and_rebuild_html"
    /\ last.cleaned = 1
    /\ last.element.tag = "span"
    /\ Len(last.element.children) = MaxKids
    /\ last.element.children[1].tag = "span"
    /\ last.element.children[1].children = <<Element("p", {"c"}, <<>>)>>
    /\ last.element.children[MaxKids].tag = "#text"
    /\ last.html = <<OpenTag("div", {}), OpenTag("p", {}), CloseTag("p"), CloseTag("div"),
                     TextPiece(<<"x">>)>>

\* The URLs of the <img> tags of an HTML string, each one once, in order.
ImageUrls(html) ==
    LET tags == PiecesOf(html, "img")
        firsts == SelectSeq([k \in DOMAIN tags |->
                                [url |-> tags[k].src,
                                 first |-> \A m \in 1..(k - 1) :
                                               tags[m].src # tags[k].src]],
                            LAMBDA x : x.first)
    IN  [k \in DOMAIN firsts |-> firsts[k].url]

\* C21: a page with div.questionStem is parsed by the ACEP parser, whatever
\* else it holds; without it, a page with section.q_info or section.q_mcq is
\* parsed by the MKSAP parser; any other page by the generic parser, whose
\* question is the cleaned <body> and which gives no answers and no
\* explanation.  In each case the images field is the list of the images the
\* cleaner met while it built the question and the explanation.
C21_OneParserByPriority ==
    last.op = "parse_question_html" =>
        LET shape == last.shape
            result == last.result
            expected == IF shape.acep # "none" THEN "acep"
                        ELSE IF shape.info # "none" \/ shape.mcq THEN "mksap"
                        ELSE "generic"
        IN  /\ result.parser = expected
            /\ result.images = ImageUrls(result.question_html \o result.explanation_html)
            /\ expected = "generic" =>
                 /\ result.answers = <<>>
                 /\ result.explanation_html = <<>>
                 /\ shape.wrap =>
                      result.question_html
                        = <<OpenTag("div", BaseStyle)>>
                          \o _clean_and_rebuild_html(
                                 Element("body", {}, Blocks(shape)),
                                 last.base_url, <<>>).html
                          \o <<CloseTag("div")>>
                 /\ ~shape.wrap =>
                      result.question_html = Message("No content available.")

\* A page holding the ACEP stem next to both MKSAP blocks went to the ACEP
\* parser, and its images were listed.
C21_Witness ==
    /\ last.op = "parse_question_html"
    /\ last.shape.acep = "stem"
    /\ last.shape.info = "plain"
    /\ last.shape.mcq
    /\ last.shape.explanation # "none"
    /\ last.result.parser = "acep"
    /\ Len(last.result.answers) = 0
    /\ last.result.images = <<Url("http://example.com", <<"base", "image.jpg">>)>>

\* The texts of the answer choices of the pages parsed.
ChoiceWords == {"Admit", "Discharge", "Azithromycin", "Fluid"}

\* C22: whichever of the two named-source parsers ran, no text of
\* question_html is the text of an answer choice: a choices block nested in
\* the stem container is taken out before the stem is cleaned.
C22_NoChoiceTextInStem ==
    (last.op = "parse_question_html" /\ last.result.parser \in {"acep", "mksap"}) =>
        LET texts == PiecesOf(last.result.question_html, "text")
        IN  \A k \in DOMAIN texts :
                \A j \in DOMAIN texts[k].text : texts[k].text[j] \notin ChoiceWords

\* The same for the MKSAP parser alone.
MksapStemHasNoChoiceText ==
    (last.op = "parse_question_html" /\ last.result.parser = "mksap") =>
        LET texts == PiecesOf(last.result.question_html, "text")
        IN  \A k \in DOMAIN texts :
                \A j \in DOMAIN texts[k].text : texts[k].text[j] \notin ChoiceWords

\* C23: for a page parsed by the MKSAP parser, when an option carries r_a the
\* correct options are exactly those carrying it, whatever the explanation
\* says; when none carries it and the explanation found says
\* "Correct Answer: <LETTER>", the correct options are exactly those whose
\* letter is that letter; otherwise no option is correct.
C23_CorrectnessFallback ==
    (last.op = "parse_question_html" /\ last.result.parser = "mksap") =>
        LET shape == last.shape
            answers == last.result.answers
        IN  \A k \in DOMAIN answers :
                answers[k].is_correct
                  = IF shape.marked # {} THEN k \in shape.marked
                    ELSE IF shape.explanation \in UpperLetters
                    THEN answers[k].letter = <<shape.explanation>>
                    ELSE FALSE

\* No option carried r_a, the explanation said "Correct Answer: C", and the
\* option lettered C, the second, is the only correct one.
C23_Witness ==
    /\ last.op = "parse_question_html"
    /\ last.result.parser = "mksap"
    /\ last.shape.marked = {}
    /\ last.shape.explanation = "C"
    /\ Len(last.result.answers) = 2
    /\ last.result.answers[1].letter = <<"A">>
    /\ ~last.result.answers[1].is_correct
    /\ last.result.answers[2].letter = <<"C">>
    /\ last.result.answers[2].is_correct

\* C24: every answer of either named-source parser has the number its peer
\* text spells once every '%' is dropped, and None when the item has no peer
\* element or the text is no number; 0% gives the number 0, which is not None.
C24_PeerPercentageOrNone ==
    (last.op = "parse_question_html" /\ last.result.parser \in {"acep", "mksap"}) =>
        LET shape == last.shape
            answers == last.result.answers
            digits == SelectSeq(shape.peer, LAMBDA c : c # "%")
        IN  \A k \in DOMAIN answers :
              /\ ~shape.has_peer => answers[k].peer_percentage = NoPercentage
              /\ shape.has_peer =>
                   /\ answers[k].peer_percentage
                        = IF ParseFloat(digits).error THEN NoPercentage
                          ELSE Percentage(ParseFloat(digits).hundredths)
                   /\ digits = <<"8">> => answers[k].peer_percentage = Percentage(800)
                   /\ digits = <<"0">> =>
                        /\ answers[k].peer_percentage = Percentage(0)
                        /\ answers[k].peer_percentage # NoPercentage
                   /\ digits = <<"8", ".", "8">> =>
                        answers[k].peer_percentage = Percentage(880)
                   /\ (digits = <<>> \/ digits = <<".">> \/ (\E j \in DOMAIN digits : digits[j] = "x")
                       \/ Cardinality({j \in DOMAIN digits : digits[j] = "."}) > 1) =>
                        answers[k].peer_percentage = NoPercentage

\* An ACEP page whose peer text is no number: both answers came out, with no
\* percentage.
C24_Witness ==
    /\ last.op = "parse_question_html"
    /\ last.result.parser = "acep"
    /\ last.shape.has_peer
    /\ last.shape.peer = <<"8", "x", "%">>
    /\ Len(last.result.answers) = 2
    /\ \A k \in 1..2 : last.result.answers[k].peer_percentage = NoPercentage

\* C26: for a page parsed by the MKSAP parser the answers are the options of
\* the page's section.q_mcq, in order, whether that section stands beside the
\* stem container or inside it.
C26_AnswersOfNestedOrSiblingMcq ==
    (last.op = "parse_question_html" /\ last.result.parser = "mksap") =>
        LET answers == last.result.answers
        IN  IF last.shape.mcq \/ last.shape.info = "nested_mcq"
            THEN /\ Len(answers) = 2
                 /\ answers[1].text = <<"Azithromycin">>
                 /\ answers[2].text = <<"Fluid">>
            ELSE answers = <<>>

\* The same when section.q_mcq stands beside the stem container.
SiblingMcqAnswersListed ==
    (/\ last.op = "parse_question_html"
     /\ last.result.parser = "mksap"
     /\ last.shape.mcq) =>
        /\ Len(last.result.answers) = 2
        /\ last.result.answers[1].text = <<"Azithromycin">>
        /\ last.result.answers[2].text = <<"Fluid">>

(***************************************************************************)
(* Files as the extraction server names them.  The server numbers the      *)
(* extractions of a session from 0, so a later session writes the same     *)
(* site and index under another timestamp.                                 *)
(***************************************************************************)
ServerTimestamps == {"20251116_150929", "20251117_090000"}

\* datetime.now().strftime("%Y%m%d_%H%M%S"), as pieces of a file name.
StampPieces(timestamp) ==
    IF timestamp = "20251116_150929" THEN <<"20251116", "_", "150929">>
    ELSE <<"20251117", "_", "090000">>

\* f"{timestamp}_{site_name}_{extraction_index}" with the .json suffix.
ServerFileName(timestamp, site_name, extraction_index) ==
    StampPieces(timestamp) \o <<"_", site_name, "_", extraction_index, ".", "json">>

StampedHtml == {DocPlain, <<"x">>}

\* The text of a name that is one piece.
PieceText(pieces) == pieces[1]

\* The pair of files of one extraction, as the directory loop sees it: the
\* source name and the key are what parse_extraction_filename(json_file.name)
\* returns.
StampedFile(timestamp, site_name, extraction_index, html) ==
    LET parsed == parse_extraction_filename(
                      ServerFileName(timestamp, site_name, extraction_index))
    IN  [ExtractionFile(PieceText(parsed.source_name), PieceText(parsed.question_key),
                        "ok", TRUE, html, 0, 0)
            EXCEPT !.base = timestamp, !.name_ok = ~parsed.is_none]

\* What glob("*.json") lists in a directory of two extractions: two files
\* of different names, in either order.
StampedDirs ==
    {<<StampedFile(t1, s1, k1, h1), StampedFile(t2, s2, k2, h2)>> :
        t1 \in ServerTimestamps, t2 \in ServerTimestamps,
        s1 \in SourceNames, s2 \in SourceNames,
        k1 \in QuestionKeys, k2 \in QuestionKeys,
        h1 \in StampedHtml, h2 \in StampedHtml} \
    {d \in [1..2 -> [base : ServerTimestamps, name_ok : BOOLEAN, src : SourceNames,
                     key : QuestionKeys, json : {"ok"}, html_present : {TRUE},
                     html : StampedHtml, media : {0}, copy_fail : {0},
                     llm : {LLMFailed("config")}]] :
        FileName(d[1]) = FileName(d[2])}

InitStamp ==
    /\ db = EmptyDB
    /\ runs = NoRuns
    /\ last \in {[op |-> "none", json_files |-> d, stats |-> NoStats] :
                    d \in StampedDirs}

\* One run of the directory loop over the two files.
IngestStamped ==
    /\ last.op = "none"
    /\ LET r == ingest_extractions(db, last.json_files, FALSE, LLMFailed("config"), 0)
       IN  /\ db' = r.db
           /\ last' = [op |-> "ingest_extractions", json_files |-> last.json_files,
                       stats |-> r.stats]
    /\ UNCHANGED runs

NextStamp == IngestStamped

SpecStamp == InitStamp /\ [][NextStamp]_vars

\* C28: the parse of a server file name does not depend on its timestamp;
\* after a run over two files of the same site and index and different
\* timestamps the database holds one question of that natural key, with the
\* HTML and the path of the file listed first, the other file was counted as
\* existing, and its HTML is stored nowhere; two files of different site or
\* index give two questions.
C28_IdentityIgnoresTimestamp ==
    /\ \A t1 \in ServerTimestamps, t2 \in ServerTimestamps,
          s \in SourceNames, k \in QuestionKeys :
            /\ parse_extraction_filename(ServerFileName(t1, s, k)) = Parsed(<<s>>, <<k>>)
            /\ parse_extraction_filename(ServerFileName(t1, s, k))
                 = parse_extraction_filename(ServerFileName(t2, s, k))
    /\ last.op = "ingest_extractions" =>
         LET first == last.json_files[1]
             second == last.json_files[2]
         IN  IF first.src = second.src /\ first.key = second.key
             THEN /\ first.base # second.base
                  /\ Len(db.questions) = 1
                  /\ db.questions[1].source_question_key = first.key
                  /\ db.questions[1].raw_html = ReadText(first.html)
                  /\ db.questions[1].extraction_path = first.base
                  /\ last.stats.added = 1
                  /\ last.stats.existing = 1
                  /\ last.stats.failed = 0
                  /\ second.html # first.html =>
                       db.questions[1].raw_html # ReadText(second.html)
             ELSE /\ Len(db.questions) = 2
                  /\ last.stats.added = 2
                  /\ last.stats.existing = 0

\* Two files of one site and index, the later timestamp listed first, with
\* different pages: the page stored is the one of the file listed first.
C28_Witness ==
    /\ last.op = "ingest_extractions"
    /\ last.json_files[1].base = "20251117_090000"
    /\ last.json_files[2].base = "20251116_150929"
    /\ last.json_files[1].src = last.json_files[2].src
    /\ last.json_files[1].key = last.json_files[2].key
    /\ last.json_files[1].html = <<"x">>
    /\ last.json_files[2].html = DocPlain
    /\ Len(db.questions) = 1
    /\ db.questions[1].raw_html = <<"x">>
    /\ last.stats.existing = 1

(***************************************************************************)
(* The extraction server.  app.run serves each request on a thread of its  *)
(* own, so the statements of two receive_extraction calls interleave; the  *)
(* module-level list `extractions` is shared.  `last` holds the server:    *)
(* the list, the files written, the clock in seconds, the number of        *)
(* /clear calls so far and the answer to the last GET; `runs` holds each   *)
(* request's position in receive_extraction.                               *)
(***************************************************************************)
MaxRequests == 2
MaxClock == 1
MaxClears == 1

RequestIds == 1..MaxRequests
SiteNames == {"MKSAP", "Peer Prep"}

NoData == [given |-> FALSE, siteName |-> "", pageHTML |-> 0]
\* The body of one POST /extract; pageHTML tells the requests apart.
Payload(siteName, r) == [given |-> TRUE, siteName |-> siteName, pageHTML |-> r]

\* data.get("siteName", "unknown").replace(" ", "_")
SiteToken(data) == IF data.siteName = "Peer Prep" THEN "Peer_Prep" ELSE data.siteName

\* f"{timestamp}_{site_name}_{extraction_index}"
BaseFilename(timestamp, data, extraction_index) ==
    <<timestamp, SiteToken(data), extraction_index>>

NoFile == <<>>
Waiting == [pc |-> "idle", data |-> NoData, extraction_index |-> 0, epoch |-> 0,
            base_filename |-> NoFile]

InitServer ==
    /\ db = EmptyDB
    /\ last = [op |-> "server", extractions |-> <<>>, files |-> {}, clock |-> 0,
               clears |-> 0, got |-> [index |-> 0, status |-> 0, data |-> NoData]]
    /\ runs = [r \in RequestIds |-> Waiting]

\* Lines 89-92: data = request.get_json(); no data is answered with 400.
ReceiveExtraction(r) ==
    /\ runs[r].pc = "idle"
    /\ \E data \in {NoData} \cup {Payload(s, r) : s \in SiteNames} :
           runs' = [runs EXCEPT ![r] = [@ EXCEPT !.data = data,
                                                 !.pc = IF data.given THEN "append"
                                                        ELSE "rejected"]]
    /\ UNCHANGED <<db, last>>

\* Line 95: extractions.append(data)
AppendExtraction(r) ==
    /\ runs[r].pc = "append"
    /\ last' = [last EXCEPT !.extractions = Append(@, runs[r].data)]
    /\ runs' = [runs EXCEPT ![r] = [@ EXCEPT !.pc = "index", !.epoch = last.clears]]
    /\ UNCHANGED db

\* Line 96: extraction_index = len(extractions) - 1
ReadIndex(r) ==
    /\ runs[r].pc = "index"
    /\ runs' = [runs EXCEPT ![r] = [@ EXCEPT !.pc = "write",
                                           !.extraction_index =
                                               Len(last.extractions) - 1]]
    /\ UNCHANGED <<db, last>>

\* Lines 99-127: the file names are made and the files written; a file of the
\* same name is overwritten.
SaveFiles(r) ==
    /\ runs[r].pc = "write"
    /\ LET base_filename == BaseFilename(last.clock, runs[r].data,
                                         runs[r].extraction_index)
       IN  /\ last' = [last EXCEPT !.files =
                          {f \in @ : f.base_filename # base_filename}
                          \cup {[base_filename |-> base_filename,
                                 data |-> runs[r].data]}]
           /\ runs' = [runs EXCEPT ![r] = [@ EXCEPT !.pc = "done",
                                                  !.base_filename = base_filename]]
    /\ UNCHANGED db

\* Lines 207-212: GET /extractions/<index>
GetExtraction ==
    /\ \E index \in 0..MaxRequests :
           last' = [last EXCEPT !.got =
                       IF 0 <= index /\ index < Len(last.extractions)
                       THEN [index |-> index, status |-> 200,
                             data |-> last.extractions[index + 1]]
                       ELSE [index |-> index, status |-> 404, data |-> NoData]]
    /\ UNCHANGED <<db, runs>>

\* Lines 215-220: POST /clear
ClearExtractions ==
    /\ last.clears < MaxClears
    /\ last' = [last EXCEPT !.extractions = <<>>, !.clears = @ + 1]
    /\ UNCHANGED <<db, runs>>

\* A second passes.
Tick ==
    /\ last.clock < MaxClock
    /\ last' = [last EXCEPT !.clock = @ + 1]
    /\ UNCHANGED <<db, runs>>

NextServer ==
    \/ \E r \in RequestIds :
           \/ ReceiveExtraction(r)
           \/ AppendExtraction(r)
           \/ ReadIndex(r)
           \/ SaveFiles(r)
    \/ GetExtraction
    \/ ClearExtractions
    \/ Tick

SpecServer == InitServer /\ [][NextServer]_vars

\* The requests that were given an index since the last /clear.
Indexed == {r \in RequestIds : /\ runs[r].pc \in {"write", "done"}
                               /\ runs[r].epoch = last.clears}

\* C29: two requests given an index since the last /clear have different
\* indexes, each index is the position of the request's payload in the list
\* (so GET /extractions/<index> answers with that payload), and the two did
\* not write files of the same name.
C29_IndexIsUniquePosition ==
    last.op = "server" =>
        \A r \in Indexed :
            /\ runs[r].extraction_index \in 0..(Len(last.extractions) - 1)
            /\ last.extractions[runs[r].extraction_index + 1] = runs[r].data
            /\ \A q \in Indexed \ {r} :
                   /\ runs[q].extraction_index # runs[r].extraction_index
                   /\ (runs[q].pc = "done" /\ runs[r].pc = "done") =>
                          runs[q].base_filename # runs[r].base_filename

(***************************************************************************)
(* NotesiumManager.  `last` holds the manager (process, _is_healthy), what *)
(* its last call returned, and the world around it: which of the           *)
(* processes it spawned are running, whether the one it holds serves the   *)
(* port, and whether another program serves the port (answering 200 or     *)
(* not).  Processes are numbered in the order they are spawned.            *)
(***************************************************************************)
MaxSpawns == 2
max_attempts == 10

NoProcess == 0
Externals == {"none", "healthy", "unhealthy"}

\* __init__
NewManager(external) ==
    [op |-> "__init__", process |-> NoProcess, _is_healthy |-> FALSE,
     returned |-> "None", spawned |-> NoProcess, attempts |-> 0,
     alive |-> {}, listening |-> FALSE, spawns |-> 0, external |-> external]

\* The manager's own process is running and serves the port.
OwnServes(m) == m.process # NoProcess /\ m.process \in m.alive /\ m.listening

\* _check_port_in_use(): something answers on the port, with any status.
_check_port_in_use(m) == m.external # "none" \/ OwnServes(m)

\* _health_check(): the answer has status 200.
_health_check(m) == m.external = "healthy" \/ OwnServes(m)

\* stop(), lines 172-191.
stop(m) ==
    IF m.process # NoProcess
    THEN [m EXCEPT !.alive = @ \ {m.process}, !.listening = FALSE,
                   !.process = NoProcess, !._is_healthy = FALSE]
    ELSE m

Returned(m, value) == [m EXCEPT !.op = "start", !.returned = value]

\* Lines 107-148: the process is spawned, then polled up to max_attempts
\* times; at attempt `attempt` it answers, or is found dead, or neither
\* happens in any attempt.
Spawned(m, outcome, attempt) ==
    LET pid == m.spawns + 1
        running == [m EXCEPT !.process = pid, !.spawned = pid, !.spawns = pid,
                             !.alive = @ \cup {pid}, !.listening = FALSE]
    IN  IF outcome = "healthy"
        THEN Returned([running EXCEPT !.listening = TRUE, !._is_healthy = TRUE,
                                      !.attempts = attempt], "True")
        ELSE IF outcome = "died"
        THEN Returned([running EXCEPT !.alive = @ \ {pid}, !.attempts = attempt],
                      "False")
        ELSE Returned([stop(running) EXCEPT !.attempts = max_attempts], "False")

\* start(), lines 37-170.  `env` says what the call meets: whether mkdir
\* works, whether the binary is found, whether Popen raises, and how the
\* spawned process behaves.
start(m, env) ==
    LET called == [m EXCEPT !.spawned = NoProcess, !.attempts = 0]
    IN  IF ~env.mkdir_ok THEN Returned(called, "False")
        ELSE IF _check_port_in_use(called)
        THEN IF _health_check(called)
             THEN Returned([called EXCEPT !._is_healthy = TRUE], "True")
             ELSE Returned(called, "False")
        ELSE IF ~env.binary_found THEN Returned(called, "False")
        ELSE IF env.popen_raises THEN Returned(stop(called), "False")
        ELSE Spawned(called, env.outcome, env.attempt)

StartEnvs ==
    [mkdir_ok : BOOLEAN, binary_found : BOOLEAN, popen_raises : BOOLEAN,
     outcome : {"healthy", "died", "never"}, attempt : {1, max_attempts}]

InitManager ==
    /\ db = EmptyDB
    /\ runs = NoRuns
    /\ last \in {NewManager(external) : external \in Externals}

Start ==
    /\ last.spawns < MaxSpawns
    /\ \E env \in StartEnvs : last' = start(last, env)
    /\ UNCHANGED <<db, runs>>

Stop ==
    /\ last' = [stop(last) EXCEPT !.op = "stop", !.returned = "None"]
    /\ UNCHANGED <<db, runs>>

\* The process the manager holds exits on its own.
ProcessExits ==
    /\ last.process \in last.alive
    /\ last' = [last EXCEPT !.op = "exit", !.alive = @ \ {last.process},
                            !.listening = FALSE]
    /\ UNCHANGED <<db, runs>>

\* Another program takes the port, or leaves it.
PortChanges ==
    /\ ~OwnServes(last)
    /\ \E external \in Externals \ {last.external} :
           last' = [last EXCEPT !.op = "port", !.external = external]
    /\ UNCHANGED <<db, runs>>

NextManager == Start \/ Stop \/ ProcessExits \/ PortChanges

SpecManager == InitManager /\ [][NextManager]_vars

\* C30: after start() returned False the manager is not healthy and the
\* process that call spawned, if any, is not running; after stop() returned
\* process is None and _is_healthy is False, whatever came before.
C30_StartFalseAndStopLeaveNothing ==
    /\ (last.op = "start" /\ last.returned = "False") =>
          /\ ~last._is_healthy
          /\ last.spawned \notin last.alive
    /\ last.op = "stop" =>
          /\ last.process = NoProcess
          /\ ~last._is_healthy

\* What holds of the same: a start() that returned False left no process of
\* its own running, and stop() always leaves process None.
NoProcessLeftBehind ==
    /\ (last.op = "start" /\ last.returned = "False") =>
          last.spawned \notin last.alive
    /\ last.op = "stop" => last.process = NoProcess /\ last.alive = {}

\* The part of it about stop() alone: after stop() the manager is not
\* healthy.
StopLeavesUnhealthy == last.op = "stop" => ~last._is_healthy

====
